---- MODULE Spec2Model ----
(***************************************************************************)
(* A model of the gsio-node ledger store (crates/gsio-node/src/ledger.rs)  *)
(* and of the part of the peer protocol that feeds it                      *)
(* (crates/gsio-node/src/p2p.rs, crates/gsio-node/src/main.rs).            *)
(*                                                                         *)
(* Strings are sequences of tokens, so that the byte concatenation that    *)
(* calculate_hash feeds to SHA-256 is a sequence concatenation.  SHA-256   *)
(* is modelled as a collision-free function of the bytes it is given.      *)
(* A HashMap keyed by a field of its values (pending_entries, by id) is a  *)
(* set of values in which no two have the same key.                        *)
(***************************************************************************)
EXTENDS Integers, Sequences, FiniteSets, TLC

VARIABLES
    entries,          \* Ledger.entries of every node: the chain
    pending_entries,  \* Ledger.pending_entries of every node
    known_nodes,      \* Ledger.known_nodes of every node
    connected_nodes,  \* P2PManager.connected_nodes of every node: peer id -> socket
    net,              \* p2p_message events emitted to a socket of a modelled node, not yet handled
    peer_entries,     \* the entries that peers outside the model have built
    now,              \* the wall clock read by Utc::now()
    ret,              \* the last call: its name, node, argument, result and emits
    tasks             \* the two mutexes of the node and its handlers in flight, step by step

\* every variable; the name and the node of the last call stand in front, so that two
\* states of different calls differ in a string before their results are compared
vars == <<ret.op, ret.node, entries, pending_entries, known_nodes, connected_nodes, net,
          peer_entries, now, ret, tasks>>

----------------------------------------------------------------------------
(* Bounds *)

\* the last clock tick at which an entry is created
MaxTime == 2
\* the most entries a node holds, chain and pending pool together, when it takes one more
MaxLedger == 3
\* the most p2p messages in flight
MaxNet == 1
\* the most entries that peers outside the model build
MaxPeerEntries == 2

\* clock ticks per millisecond: timestamps are finer than the millisecond of an id
TicksPerMilli == 2

\* the nodes whose state is modelled
Nodes == {"n1", "n2"}
\* peers outside the model that connect, create entries and announce them
Peers == {"p1"}
\* the payloads that clients submit (serde_json::Value)
Data == {"x"}
\* socket handles
Sockets == {"s1"}

----------------------------------------------------------------------------
(* Entries: struct LedgerEntry *)

\* "0".repeat(64)
GenesisHash == <<"0000000000000000000000000000000000000000000000000000000000000000">>

\* Sha256::new, update, finalize and format!("{:x}"): collision-free on the bytes
\* it is fed, and never the genesis sentinel
Sha256(bytes) == <<"sha256(">> \o bytes \o <<")">>

\* DateTime::timestamp_millis
timestamp_millis(t) == t \div TicksPerMilli

\* DateTime::to_rfc3339
to_rfc3339(t) == <<"T", ToString(t)>>

\* serde_json::Value::to_string
to_string(data) == <<data>>

\* calculate_hash without the hasher.update of the data
calculate_hash_no_data(e) ==
    LET bytes == e.id \o to_rfc3339(e.timestamp) \o e.previous_hash \o <<e.creator_node_id>>
    IN  Sha256(bytes)

\* LedgerEntry::calculate_hash
calculate_hash(e) ==
    LET bytes == e.id \o to_rfc3339(e.timestamp) \o to_string(e.data)
                      \o e.previous_hash \o <<e.creator_node_id>>
    IN  Sha256(bytes)

\* LedgerEntry::new, at clock reading t
LedgerEntry_new(data, previous_hash, creator_node_id, t) ==
    LET entry == [id |-> <<creator_node_id, "-", ToString(timestamp_millis(t))>>,
                  timestamp |-> t,
                  data |-> data,
                  previous_hash |-> previous_hash,
                  hash |-> <<>>,
                  creator_node_id |-> creator_node_id,
                  signatures |-> {}]
    IN  [entry EXCEPT !.hash = calculate_hash(entry)]

\* LedgerEntry::add_signature: HashMap::insert on a map kept as a set of <<key, value>>
add_signature(e, node_id, signature) ==
    [e EXCEPT !.signatures = {s \in @ : s[1] # node_id} \cup {<<node_id, signature>>}]

\* LedgerEntry::is_valid
is_valid(e) == e.hash = calculate_hash(e)

----------------------------------------------------------------------------
(* The ledger: struct Ledger *)

Last(s) == s[Len(s)]

\* HashMap::insert of an entry under its id: an entry with the same id is replaced
insert(pool, entry) == {x \in pool : x.id # entry.id} \cup {entry}

\* HashMap::clear in place of HashMap::remove
remove_all(pool, id) == {}

\* HashMap::remove by id
remove(pool, id) == {x \in pool : x.id # id}

\* add_entry with String::new() in place of "0".repeat(64) below the first entry
add_entry_no_sentinel(chain, node_id, data, t) ==
    LET previous_hash == IF chain # <<>> THEN Last(chain).hash ELSE <<>>
        entry == LedgerEntry_new(data, previous_hash, node_id, t)
    IN  [ok |-> TRUE, entry |-> entry, entries |-> Append(chain, entry)]

\* add_entry reading entries.first() in place of entries.last()
add_entry_first(chain, node_id, data, t) ==
    LET previous_hash == IF chain # <<>> THEN chain[1].hash ELSE GenesisHash
        entry == LedgerEntry_new(data, previous_hash, node_id, t)
    IN  [ok |-> TRUE, entry |-> entry, entries |-> Append(chain, entry)]

\* Ledger::add_entry at clock reading t: the entry it returns and the chain it leaves
add_entry(chain, node_id, data, t) ==
    LET previous_hash == IF chain # <<>> THEN Last(chain).hash ELSE GenesisHash
        entry == LedgerEntry_new(data, previous_hash, node_id, t)
    IN  [ok |-> TRUE, entry |-> entry, entries |-> Append(chain, entry)]

\* Ledger::add_pending_entry
add_pending_entry(pool, entry) == insert(pool, entry)

\* process_pending_entries without its filter on previous_hash
entries_to_process_all(pool, last_entry) == pool

\* the filter of process_pending_entries: the pending entries that link to last_entry
entries_to_process(pool, last_entry) ==
    {e \in pool : e.previous_hash = last_entry.hash}

\* collect() in the HashMap's iteration order, without the sort_by
sort_by_timestamp_skipped(S) ==
    {order \in [1..Cardinality(S) -> S] :
        \A i, j \in 1..Cardinality(S) : i # j => order[i] # order[j]}

\* collect() in the HashMap's iteration order and the stable sort_by on timestamp:
\* every arrangement of the selection with non-decreasing timestamps
sort_by_timestamp(S) ==
    {order \in [1..Cardinality(S) -> S] :
        /\ \A i, j \in 1..Cardinality(S) : i # j => order[i] # order[j]
        /\ \A i, j \in 1..Cardinality(S) : i < j => order[i].timestamp <= order[j].timestamp}

\* process_entry without the is_valid test
process_entry_unchecked(st, entry) ==
    [entries |-> Append(st.entries, entry),
     pending_entries |-> remove(st.pending_entries, entry.id),
     added_entries |-> Append(st.added_entries, entry)]

\* process_entry with insert(0, ..) in place of push
process_entry_front(st, entry) ==
    IF is_valid(entry)
    THEN [entries |-> <<entry>> \o st.entries,
          pending_entries |-> remove(st.pending_entries, entry.id),
          added_entries |-> Append(st.added_entries, entry)]
    ELSE st

\* process_entry without the pending_entries.remove
process_entry_keep(st, entry) ==
    IF is_valid(entry)
    THEN [entries |-> Append(st.entries, entry),
          pending_entries |-> st.pending_entries,
          added_entries |-> Append(st.added_entries, entry)]
    ELSE st

\* process_entry that drops from the pool an entry that fails is_valid
process_entry_evict(st, entry) ==
    IF is_valid(entry)
    THEN [entries |-> Append(st.entries, entry),
          pending_entries |-> remove(st.pending_entries, entry.id),
          added_entries |-> Append(st.added_entries, entry)]
    ELSE [st EXCEPT !.pending_entries = remove(@, entry.id)]

\* the body of the for loop of process_pending_entries, on one entry
process_entry(st, entry) ==
    IF is_valid(entry)
    THEN [entries |-> Append(st.entries, entry),
          pending_entries |-> remove(st.pending_entries, entry.id),
          added_entries |-> Append(st.added_entries, entry)]
    ELSE st

\* the for loop of process_pending_entries
RECURSIVE process_loop(_, _, _)
process_loop(st, order, i) ==
    IF i > Len(order) THEN st
    ELSE process_loop(process_entry(st, order[i]), order, i + 1)

\* the arrangements in which one call of process_pending_entries may visit the pool
processing_orders(chain, pool) ==
    IF chain = <<>> THEN {<<>>}
    ELSE sort_by_timestamp(entries_to_process(pool, Last(chain)))

\* process_pending_entries that selects again from the new tip after its pass
process_pending_entries_again(chain, pool, order) ==
    LET st == [entries |-> chain, pending_entries |-> pool, added_entries |-> <<>>]
        r == process_loop(st, order, 1)
        again == CHOOSE o \in sort_by_timestamp(
                     entries_to_process(r.pending_entries, Last(r.entries))) : TRUE
    IN  IF chain = <<>> THEN st ELSE process_loop(r, again, 1)

\* Ledger::process_pending_entries, visiting the selection in the given order
process_pending_entries(chain, pool, order) ==
    LET st == [entries |-> chain, pending_entries |-> pool, added_entries |-> <<>>]
    IN  IF chain = <<>> THEN st ELSE process_loop(st, order, 1)

\* add_known_node that clears the set before the insert
add_known_node_only(known, node_id) == {node_id}

\* add_known_node that removes an id that is already there
add_known_node_toggle(known, node_id) ==
    IF node_id \in known THEN known \ {node_id} ELSE known \cup {node_id}

\* add_known_node that makes room for a new id by dropping one when it holds two
add_known_node_evict(known, node_id) ==
    IF Cardinality(known) >= 2 /\ node_id \notin known
    THEN (known \ {CHOOSE x \in known : TRUE}) \cup {node_id}
    ELSE known \cup {node_id}

\* Ledger::add_known_node
add_known_node(known, node_id) == known \cup {node_id}

----------------------------------------------------------------------------
(* The peer protocol: struct P2PManager *)

\* P2PMessage::new; message_id is a fresh Uuid that no handler reads
P2PMessage_new(message_type, sender_id, recipient_id, payload) ==
    [message_type |-> message_type,
     sender_id |-> sender_id,
     recipient_id |-> recipient_id,
     payload |-> payload]

\* connect that drops every other row of the table
connect_single(table, node_id, socket) == {<<node_id, socket>>}

\* connect that keeps the socket a node id already has
connect_keep(table, node_id, socket) == table \cup {<<node_id, socket>>}

\* HashMap::insert into connected_nodes, a map kept as a set of <<peer id, socket>>
connect(table, node_id, socket) ==
    {c \in table : c[1] # node_id} \cup {<<node_id, socket>>}

\* broadcast_message that returns after its first emit
broadcast_message_first(table, message) ==
    IF table = {} THEN {}
    ELSE LET c == CHOOSE x \in table : TRUE
         IN  {[to |-> c[1], socket |-> c[2], msg |-> message]}

\* P2PManager::broadcast_message: one emit on the socket of every connected node
broadcast_message(table, message) ==
    {[to |-> c[1], socket |-> c[2], msg |-> message] : c \in table}

\* broadcast_entry that announces to no peer
broadcast_entry_to_none(table, node_id, entry) == {}

\* P2PManager::broadcast_entry
broadcast_entry(table, node_id, entry) ==
    broadcast_message(table, P2PMessage_new("EntryAnnounce", node_id, "", entry))

\* the loop over added_entries leaving after its first entry
broadcast_entries_first(table, node_id, added_entries) ==
    IF added_entries = <<>> THEN {}
    ELSE broadcast_entry(table, node_id, added_entries[1])

\* the for loop over added_entries that broadcasts each of them
broadcast_entries(table, node_id, added_entries) ==
    UNION {broadcast_entry(table, node_id, added_entries[i]) : i \in 1..Len(added_entries)}

\* enum MessageType
MessageTypes ==
    {"NodeAnnounce", "NodeListRequest", "NodeListResponse", "EntryAnnounce",
     "EntryRequest", "EntryResponse", "LedgerSyncRequest", "LedgerSyncResponse"}

\* json!({}): the document without fields
EmptyDoc == [k \in {} |-> ""]

\* serde_json::from_value::<P2PMessage> is Ok: every field is there and the type is one
\* of the enum
is_message(data) ==
    /\ {"message_type", "sender_id", "recipient_id", "payload"} \subseteq DOMAIN data
    /\ data.message_type \in MessageTypes

\* serde_json::from_value::<LedgerEntry> is Ok: every field is there
is_entry(payload) ==
    {"id", "timestamp", "data", "previous_hash", "hash", "creator_node_id", "signatures"}
        \subseteq DOMAIN payload

\* data.get("node_id") with the empty string as the default
get_node_id_or_empty(data) == IF "node_id" \in DOMAIN data THEN data.node_id ELSE ""

\* data.get("node_id") with the default "unknown"
get_node_id(data) == IF "node_id" \in DOMAIN data THEN data.node_id ELSE "unknown"

\* data.get("entry_id") with the default "", the string of no tokens
get_entry_id(data) == IF "entry_id" \in DOMAIN data THEN data.entry_id ELSE <<>>

\* send_message that emits on some socket of the table when the recipient has none
send_message_any(table, recipient_id, message, emit_ok) ==
    IF table # {}
    THEN LET c == CHOOSE x \in table : TRUE
         IN  [value |-> emit_ok,
              sent |-> {[to |-> c[1], socket |-> c[2], msg |-> message]}]
    ELSE [value |-> FALSE, sent |-> {}]

\* P2PManager::send_message: the emit it makes and what it returns when the transport
\* answers the emit with emit_ok
send_message(table, recipient_id, message, emit_ok) ==
    IF \E c \in table : c[1] = recipient_id
    THEN LET c == CHOOSE x \in table : x[1] = recipient_id
         IN  [value |-> emit_ok,
              sent |-> {[to |-> recipient_id, socket |-> c[2], msg |-> message]}]
    ELSE [value |-> FALSE, sent |-> {}]

\* P2PManager::request_node_list
request_node_list(table, node_id, recipient_id, emit_ok) ==
    send_message(table, recipient_id,
                 P2PMessage_new("NodeListRequest", node_id, recipient_id, EmptyDoc), emit_ok)

\* request_entry that leaves the payload empty
request_entry_no_id(table, node_id, recipient_id, entry_id, emit_ok) ==
    send_message(table, recipient_id,
                 P2PMessage_new("EntryRequest", node_id, recipient_id, EmptyDoc), emit_ok)

\* P2PManager::request_entry
request_entry(table, node_id, recipient_id, entry_id, emit_ok) ==
    send_message(table, recipient_id,
                 P2PMessage_new("EntryRequest", node_id, recipient_id,
                                [entry_id |-> entry_id]), emit_ok)

\* P2PManager::request_ledger_sync
request_ledger_sync(table, node_id, recipient_id, emit_ok) ==
    send_message(table, recipient_id,
                 P2PMessage_new("LedgerSyncRequest", node_id, recipient_id, EmptyDoc), emit_ok)

\* the emits that reach a modelled node: socket.emit(..).ok() ignores a failed emit,
\* so any subset of them may arrive
Arrivals(emits) ==
    {[to |-> x.to, msg |-> x.msg] : x \in {y \in emits : y.to \in Nodes}}

----------------------------------------------------------------------------
(* What peers outside the model can send *)

Range(s) == {s[i] : i \in 1..Len(s)}

\* every entry some node holds or some message carries
AllEntries ==
    UNION {Range(entries[n]) \cup pending_entries[n] : n \in Nodes}
        \cup {m.msg.payload : m \in {x \in net : x.msg.message_type = "EntryAnnounce"}}

\* the hashes a peer can have seen
KnownHashes == {GenesisHash} \cup {e.hash : e \in AllEntries \cup peer_entries}

\* the entries a peer can send: the ones it built, as built or altered after hashing
PeerSends == peer_entries \cup {[e EXCEPT !.data = "forged"] : e \in peer_entries}

----------------------------------------------------------------------------
(* The state machine *)

Call(op, node, arg, value, sent) ==
    [op |-> op, node |-> node, arg |-> arg, value |-> value, sent |-> sent]

\* the tokio tasks that run handlers of the node at the same time
Threads == {"t1", "t2"}

\* a task that runs no handler
Idle ==
    [unit |-> "", pc |-> 0, held |-> <<>>, tip |-> <<>>, order |-> <<>>, queue |-> <<>>,
     todo |-> {}]

\* Mutex::new of Ledger and of connected_nodes, neither locked, and no handler in flight
NoTasks == [ledger |-> "", table |-> "", run |-> [t \in Threads |-> Idle]]

\* a call that runs from its start to its return in one step of the model
Return(op, node, arg, value, sent) ==
    /\ ret' = Call(op, node, arg, value, sent)
    /\ UNCHANGED tasks

\* Ledger::new and P2PManager::new on every node
Init ==
    /\ entries = [n \in Nodes |-> <<>>]
    /\ pending_entries = [n \in Nodes |-> {}]
    /\ known_nodes = [n \in Nodes |-> {n}]
    /\ connected_nodes = [n \in Nodes |-> {}]
    /\ net = {}
    /\ peer_entries = {}
    /\ now = 0
    /\ tasks = NoTasks
    /\ ret = Call("new", "", <<>>, <<>>, {})

\* the emits of one step, with rest still in flight: socket.emit(..).ok() ignores a
\* failed emit, so any of the new ones may be lost
Emit(rest, emits) ==
    \E arrived \in SUBSET Arrivals(emits) :
        /\ Cardinality(rest \cup arrived) <= MaxNet
        /\ net' = rest \cup arrived

\* handle_connection that broadcasts on the table as it was before the insert
HandleConnection_before(n, node_id, socket) ==
    LET table == connect(connected_nodes[n], node_id, socket)
        emits == broadcast_message(connected_nodes[n],
                     P2PMessage_new("NodeAnnounce", n, "", [node_id |-> node_id]))
    IN  /\ connected_nodes' = [connected_nodes EXCEPT ![n] = table]
        /\ known_nodes' = [known_nodes EXCEPT ![n] = add_known_node(@, node_id)]
        /\ Emit(net, emits)
        /\ Return("handle_connection", n, <<node_id, socket>>, <<>>, emits)
        /\ UNCHANGED <<entries, pending_entries, peer_entries, now>>

\* P2PManager::handle_connection: a peer connects to node n on a socket, giving an id
HandleConnection(n, node_id, socket) ==
    LET table == connect(connected_nodes[n], node_id, socket)
        emits == broadcast_message(table,
                     P2PMessage_new("NodeAnnounce", n, "", [node_id |-> node_id]))
    IN  /\ connected_nodes' = [connected_nodes EXCEPT ![n] = table]
        /\ known_nodes' = [known_nodes EXCEPT ![n] = add_known_node(@, node_id)]
        /\ Emit(net, emits)
        /\ Return("handle_connection", n, <<node_id, socket>>, <<>>, emits)
        /\ UNCHANGED <<entries, pending_entries, peer_entries, now>>

\* the add_ledger_entry handler of on_connect: add_entry, then broadcast_entry
AddLedgerEntry(n, data) ==
    /\ Len(entries[n]) + Cardinality(pending_entries[n]) < MaxLedger
    /\ \E t \in {now, now + 1} :
        /\ t <= MaxTime
        /\ now' = t
        /\ LET r == add_entry(entries[n], n, data, t)
               emits == broadcast_entry(connected_nodes[n], n, r.entry)
           IN  /\ entries' = [entries EXCEPT ![n] = r.entries]
               /\ Emit(net, emits)
               /\ Return("add_entry", n, data, [ok |-> r.ok, entry |-> r.entry], emits)
    /\ UNCHANGED <<pending_entries, known_nodes, connected_nodes, peer_entries>>

\* SharedLedger::add_pending_entry, called with an entry received from a peer
AddPendingEntry(n, entry) ==
    /\ Len(entries[n]) + Cardinality(add_pending_entry(pending_entries[n], entry)) <= MaxLedger
    /\ pending_entries' = [pending_entries EXCEPT ![n] = add_pending_entry(@, entry)]
    /\ Return("add_pending_entry", n, entry, <<>>, {})
    /\ UNCHANGED <<entries, known_nodes, connected_nodes, net, peer_entries, now>>

\* SharedLedger::process_pending_entries
ProcessPendingEntries(n) ==
    \E order \in processing_orders(entries[n], pending_entries[n]) :
        LET r == process_pending_entries(entries[n], pending_entries[n], order)
        IN  /\ entries' = [entries EXCEPT ![n] = r.entries]
            /\ pending_entries' = [pending_entries EXCEPT ![n] = r.pending_entries]
            /\ Return("process_pending_entries", n, <<>>, r.added_entries, {})
            /\ UNCHANGED <<known_nodes, connected_nodes, net, peer_entries, now>>

\* P2PManager::handle_node_announce
handle_node_announce(n, message) ==
    /\ known_nodes' = [known_nodes EXCEPT ![n] = add_known_node(@, get_node_id(message.payload))]
    /\ Return("handle_node_announce", n, message, <<>>, {})
    /\ UNCHANGED <<entries, pending_entries, connected_nodes, peer_entries, now>>

\* handle_entry_announce that broadcasts the announced entry whether or not it was
\* added to the chain
announce_entry_flood(n, message, rest) ==
    LET pool == add_pending_entry(pending_entries[n], message.payload)
    IN  /\ Len(entries[n]) + Cardinality(pool) <= MaxLedger
        /\ \E order \in processing_orders(entries[n], pool) :
            LET r == process_pending_entries(entries[n], pool, order)
                emits == broadcast_entry(connected_nodes[n], n, message.payload)
            IN  /\ entries' = [entries EXCEPT ![n] = r.entries]
                /\ pending_entries' = [pending_entries EXCEPT ![n] = r.pending_entries]
                /\ Emit(rest, emits)
                /\ Return("handle_entry_announce", n, message, r.added_entries, emits)
                /\ UNCHANGED <<known_nodes, connected_nodes, peer_entries, now>>

\* handle_entry_announce past the parse of the payload: add_pending_entry,
\* process_pending_entries, and broadcast_entry of every entry added
announce_entry(n, message, rest) ==
    LET pool == add_pending_entry(pending_entries[n], message.payload)
    IN  /\ Len(entries[n]) + Cardinality(pool) <= MaxLedger
        /\ \E order \in processing_orders(entries[n], pool) :
            LET r == process_pending_entries(entries[n], pool, order)
                emits == broadcast_entries(connected_nodes[n], n, r.added_entries)
            IN  /\ entries' = [entries EXCEPT ![n] = r.entries]
                /\ pending_entries' = [pending_entries EXCEPT ![n] = r.pending_entries]
                /\ Emit(rest, emits)
                /\ Return("handle_entry_announce", n, message, r.added_entries, emits)
                /\ UNCHANGED <<known_nodes, connected_nodes, peer_entries, now>>

\* handle_entry_announce that tells every connected node of a payload it cannot parse
handle_entry_announce_nack(n, message, rest) ==
    IF is_entry(message.payload)
    THEN announce_entry(n, message, rest)
    ELSE LET emits == broadcast_message(connected_nodes[n],
                          P2PMessage_new("EntryResponse", n, message.sender_id, EmptyDoc))
         IN  /\ Emit(rest, emits)
             /\ Return("handle_entry_announce", n, message, <<>>, emits)
             /\ UNCHANGED <<entries, pending_entries, known_nodes, connected_nodes,
                            peer_entries, now>>

\* P2PManager::handle_entry_announce; rest is what stays in flight.  A payload that
\* does not parse as a LedgerEntry is logged and dropped
handle_entry_announce(n, message, rest) ==
    IF is_entry(message.payload)
    THEN announce_entry(n, message, rest)
    ELSE /\ net' = rest
         /\ Return("handle_entry_announce", n, message, <<>>, {})
         /\ UNCHANGED <<entries, pending_entries, known_nodes, connected_nodes,
                        peer_entries, now>>

\* the p2p_message handler of setup_socket_handlers and P2PManager::handle_message, on a
\* message in flight to node n
HandleMessage(n) ==
    \E m \in net :
        /\ m.to = n
        /\ \/ /\ m.msg.message_type = "NodeAnnounce"
              /\ net' = net \ {m}
              /\ handle_node_announce(n, m.msg)
           \/ /\ m.msg.message_type = "EntryAnnounce"
              /\ handle_entry_announce(n, m.msg, net \ {m})

\* a peer outside the model builds an entry with LedgerEntry::new on a hash it has seen
PeerNew(p, previous_hash) ==
    /\ Cardinality(peer_entries) < MaxPeerEntries
    /\ \E t \in {now, now + 1} :
        /\ t <= MaxTime
        /\ now' = t
        /\ LET entry == LedgerEntry_new("x", previous_hash, p, t)
           IN  /\ peer_entries' = peer_entries \cup {entry}
               /\ Return("peer_new", p, previous_hash, entry, {})
    /\ UNCHANGED <<entries, pending_entries, known_nodes, connected_nodes, net>>

\* the node whose ledger Spec follows
LedgerNode == "n1"

\* the ledger of one node, called by its clients and with the entries of peers
Next ==
    \/ \E d \in Data : AddLedgerEntry(LedgerNode, d)
    \/ \E p \in Peers, h \in KnownHashes : PeerNew(p, h)
    \/ \E e \in PeerSends : AddPendingEntry(LedgerNode, e)
    \/ ProcessPendingEntries(LedgerNode)

Spec == Init /\ [][Next]_vars

\* the modelled nodes as peers of each other, gossiping what their clients submit
NextNet ==
    \/ \E n \in Nodes, p \in Nodes, s \in Sockets : p # n /\ HandleConnection(n, p, s)
    \/ \E n \in Nodes, d \in Data : AddLedgerEntry(n, d)
    \/ \E n \in Nodes : ProcessPendingEntries(n)
    \/ \E n \in Nodes : HandleMessage(n)

SpecNet == Init /\ [][NextNet]_vars

----------------------------------------------------------------------------
(* The peer protocol of one node: peers outside the model connect to it and send it
   p2p_message events, and the node's own code calls send_message, broadcast_message
   and the request helpers *)

\* the sockets on which peers connect
PeerSockets == {"s1", "s2"}

\* the intro payloads of connecting peers: with a node_id, or without one
IntroData == {[node_id |-> p] : p \in Peers} \cup {EmptyDoc}

\* the ids a caller names as recipient: "unknown" is what a peer without node_id gets
RecipientIds == Peers \cup {"unknown"}

\* the messages a caller hands to send_message and broadcast_message
OutMessages(n) ==
    {P2PMessage_new("NodeAnnounce", n, "", [node_id |-> n]),
     P2PMessage_new("NodeListResponse", n, "p1", [nodes |-> {n}])}

\* the on_p2p_connect handler of the /p2p namespace
OnP2PConnect(n, socket, data) == HandleConnection(n, get_node_id(data), socket)

\* P2PManager::send_message; the transport answers the emit with emit_ok
SendMessage(n, recipient_id, message, emit_ok) ==
    LET r == send_message(connected_nodes[n], recipient_id, message, emit_ok)
    IN  /\ Emit(net, IF emit_ok THEN r.sent ELSE {})
        /\ Return("send_message", n,
                       [recipient_id |-> recipient_id, message |-> message,
                        emit_ok |-> emit_ok], r.value, r.sent)
        /\ UNCHANGED <<entries, pending_entries, known_nodes, connected_nodes,
                       peer_entries, now>>

\* a request helper has run on node n with result r
Requested(op, n, arg, emit_ok, r) ==
    /\ Emit(net, IF emit_ok THEN r.sent ELSE {})
    /\ Return(op, n, arg, r.value, r.sent)
    /\ UNCHANGED <<entries, pending_entries, known_nodes, connected_nodes, peer_entries, now>>

\* P2PManager::request_node_list
RequestNodeList(n, recipient_id, emit_ok) ==
    Requested("request_node_list", n,
              [recipient_id |-> recipient_id, emit_ok |-> emit_ok], emit_ok,
              request_node_list(connected_nodes[n], n, recipient_id, emit_ok))

\* P2PManager::request_entry
RequestEntry(n, recipient_id, entry_id, emit_ok) ==
    Requested("request_entry", n,
              [recipient_id |-> recipient_id, entry_id |-> entry_id, emit_ok |-> emit_ok],
              emit_ok,
              request_entry(connected_nodes[n], n, recipient_id, entry_id, emit_ok))

\* P2PManager::request_ledger_sync
RequestLedgerSync(n, recipient_id, emit_ok) ==
    Requested("request_ledger_sync", n,
              [recipient_id |-> recipient_id, emit_ok |-> emit_ok], emit_ok,
              request_ledger_sync(connected_nodes[n], n, recipient_id, emit_ok))

\* P2PManager::broadcast_message; the transport fails the emits on the sockets in failed
BroadcastMessage(n, message, failed) ==
    LET emits == broadcast_message(connected_nodes[n], message)
    IN  /\ failed \subseteq {c[2] : c \in connected_nodes[n]}
        /\ Emit(net, {x \in emits : x.socket \notin failed})
        /\ Return("broadcast_message", n, [message |-> message, failed |-> failed],
                       <<>>, emits)
        /\ UNCHANGED <<entries, pending_entries, known_nodes, connected_nodes,
                       peer_entries, now>>

\* a handler that answers on the socket of the request, and changes nothing
Reply(op, n, socket, message, rest, responses) ==
    LET emits == {[to |-> message.sender_id, socket |-> socket, msg |-> m] : m \in responses}
    IN  /\ Emit(rest, emits)
        /\ Return(op, n, message, <<>>, emits)
        /\ UNCHANGED <<entries, pending_entries, known_nodes, connected_nodes,
                       peer_entries, now>>

\* P2PManager::handle_node_list_request
handle_node_list_request(n, socket, message, rest) ==
    Reply("handle_node_list_request", n, socket, message, rest,
          {P2PMessage_new("NodeListResponse", n, message.sender_id,
                          [nodes |-> known_nodes[n]])})

\* entries.iter().find(|e| e.id == entry_id): the first entry of the chain with the id
find(chain, entry_id) ==
    LET hits == {i \in 1..Len(chain) : chain[i].id = entry_id}
    IN  IF hits = {} THEN {}
        ELSE {chain[CHOOSE i \in hits : \A j \in hits : i <= j]}

\* find that looks for the id in the pending pool when the chain does not have it
find_pending(chain, entry_id, pool) ==
    IF find(chain, entry_id) # {} THEN find(chain, entry_id)
    ELSE IF \E e \in pool : e.id = entry_id
         THEN {CHOOSE e \in pool : e.id = entry_id}
         ELSE {}

\* handle_entry_request that answers with a pending entry when the chain has none
handle_entry_request_pending(n, socket, message, rest) ==
    Reply("handle_entry_request", n, socket, message, rest,
          {P2PMessage_new("EntryResponse", n, message.sender_id, e) :
              e \in find_pending(entries[n], get_entry_id(message.payload),
                                 pending_entries[n])})

\* P2PManager::handle_entry_request
handle_entry_request(n, socket, message, rest) ==
    Reply("handle_entry_request", n, socket, message, rest,
          {P2PMessage_new("EntryResponse", n, message.sender_id, e) :
              e \in find(entries[n], get_entry_id(message.payload))})

\* P2PManager::handle_ledger_sync_request
handle_ledger_sync_request(n, socket, message, rest) ==
    Reply("handle_ledger_sync_request", n, socket, message, rest,
          {P2PMessage_new("LedgerSyncResponse", n, message.sender_id, entries[n])})

\* P2PManager::handle_message: the dispatch on the message type
handle_message(n, socket, message, rest) ==
    CASE message.message_type = "NodeAnnounce" ->
             net' = rest /\ handle_node_announce(n, message)
      [] message.message_type = "NodeListRequest" ->
             handle_node_list_request(n, socket, message, rest)
      [] message.message_type = "EntryAnnounce" ->
             handle_entry_announce(n, message, rest)
      [] message.message_type = "EntryRequest" ->
             handle_entry_request(n, socket, message, rest)
      [] message.message_type = "LedgerSyncRequest" ->
             handle_ledger_sync_request(n, socket, message, rest)
      [] OTHER ->
             /\ net' = rest
             /\ Return("handle_message", n, message, <<>>, {})
             /\ UNCHANGED <<entries, pending_entries, known_nodes, connected_nodes,
                            peer_entries, now>>

\* the p2p_message handler that setup_socket_handlers attaches to a connected socket:
\* data that does not parse as a P2PMessage is logged and dropped
OnP2PMessage(n, socket, data) ==
    /\ \E c \in connected_nodes[n] : c[2] = socket
    /\ IF is_message(data)
       THEN handle_message(n, socket, data, net)
       ELSE /\ Return("p2p_message", n, data, <<>>, {})
            /\ UNCHANGED <<entries, pending_entries, known_nodes, connected_nodes, net,
                           peer_entries, now>>

\* the strings that Hash::from_str takes: 64 hex digits or 52 base32 digits
BlobHashes == {<<"b32hash">>}

\* Hash::from_str is Ok
Hash_from_str_ok(hash_str) == hash_str \in BlobHashes

\* an event emitted on the socket of a /peers connection
Event(socket, event, data) == [socket |-> socket, event |-> event, data |-> data]

\* the events of a handler in the reverse of the order it emits them in
Ordered_reversed(events) ==
    {[at |-> Len(events) + 1 - i, socket |-> events[i].socket, event |-> events[i].event,
      data |-> events[i].data] : i \in DOMAIN events}

\* the events a handler emits one after the other, each with its place in that order
Ordered(events) ==
    {[at |-> i, socket |-> events[i].socket, event |-> events[i].event,
      data |-> events[i].data] : i \in DOMAIN events}

\* the for loop of the sync_response case: add_pending_entry of each entry in turn
RECURSIVE add_pending_entries(_, _, _)
add_pending_entries(pool, list, i) ==
    IF i > Len(list) THEN pool
    ELSE add_pending_entries(add_pending_entry(pool, list[i]), list, i + 1)

\* serde_json::from_value::<Vec<LedgerEntry>> is Ok
is_entries(list) == \A i \in DOMAIN list : is_entry(list[i])

\* a handler of /peers data that forgets the chain of the node at whatever arrives
OnPeerMessage_reset(n, socket, data) ==
    /\ entries' = [entries EXCEPT ![n] = <<>>]
    /\ Return("on_peer_message", n, data, <<>>, {})
    /\ UNCHANGED <<pending_entries, known_nodes, connected_nodes, net, peer_entries, now>>

\* on_peer_message of the /peers namespace: the events it emits on the socket, the
\* known node it adds and what it does to the ledger, by the type of the data
OnPeerMessage(n, socket, data) ==
    LET has(f) == f \in DOMAIN data
        type == IF has("type") THEN data.type ELSE ""
        me(t) == [type |-> t, peer_id |-> n]
        quiet(events) ==
            /\ Return("on_peer_message", n, data, <<>>, Ordered(events))
            /\ UNCHANGED <<entries, pending_entries, connected_nodes, net, peer_entries, now>>
        merge(pool, events) ==
            /\ Len(entries[n]) + Cardinality(pool) <= MaxLedger
            /\ \E order \in processing_orders(entries[n], pool) :
                  LET r == process_pending_entries(entries[n], pool, order)
                      emits == IF type = "entry_announce"
                               THEN broadcast_entries(connected_nodes[n], n, r.added_entries)
                               ELSE {}
                  IN  /\ entries' = [entries EXCEPT ![n] = r.entries]
                      /\ pending_entries' = [pending_entries EXCEPT ![n] = r.pending_entries]
                      /\ Emit(net, emits)
                      /\ Return("on_peer_message", n, data, r.added_entries,
                                     emits \cup Ordered(events))
                      /\ UNCHANGED <<known_nodes, connected_nodes, peer_entries, now>>
    IN  CASE type = "peer_discovered" /\ has("peer_id") ->
                 /\ known_nodes' = [known_nodes EXCEPT ![n] = add_known_node(@, data.peer_id)]
                 /\ quiet(<<Event(socket, "advertise", me("advertise"))>>)
          [] type = "advertise" /\ has("peer_id") ->
                 /\ known_nodes' = [known_nodes EXCEPT ![n] = add_known_node(@, data.peer_id)]
                 /\ quiet(<<Event(socket, "peer_ack", me("ack")),
                           Event(socket, "peer_sync_request", me("sync_request"))>>)
          [] type = "sync_request" /\ has("peer_id") ->
                 /\ UNCHANGED known_nodes
                 /\ quiet(<<Event(socket, "peer_sync_response",
                                   [type |-> "sync_response", peer_id |-> n,
                                    entries |-> entries[n]])>>)
          [] type = "sync_response" /\ has("peer_id") ->
                 LET fetch == IF has("blob_hash")
                              THEN <<Event(socket, "fetch_blob",
                                            [type |-> "fetch_blob", peer_id |-> n,
                                             blob_hash |-> data.blob_hash])>>
                              ELSE <<>>
                 IN  IF has("entries") /\ is_entries(data.entries)
                     THEN merge(add_pending_entries(pending_entries[n], data.entries, 1),
                                fetch)
                     ELSE UNCHANGED known_nodes /\ quiet(fetch)
          [] type = "fetch_blob" /\ has("blob_hash") ->
                 /\ UNCHANGED known_nodes
                 /\ quiet(<<Event(socket, "blob_fetch_ack",
                                   [type |-> "blob_fetch_ack", peer_id |-> n,
                                    blob_hash |-> data.blob_hash,
                                    status |-> IF Hash_from_str_ok(data.blob_hash)
                                               THEN "success" ELSE "error"])>>)
          [] type = "entry_announce" /\ has("entry") /\ is_entry(data.entry) ->
                 LET hash_str == <<"entry-">> \o data.entry.id \o <<"-hash">>
                 IN  merge(add_pending_entry(pending_entries[n], data.entry),
                           IF Hash_from_str_ok(hash_str)
                           THEN <<Event(socket, "blob_available",
                                         [type |-> "blob_available", peer_id |-> n,
                                          entry_id |-> data.entry.id,
                                          blob_hash |-> hash_str])>>
                           ELSE <<>>)
          [] type = "blob_available" /\ has("blob_hash") /\ has("entry_id") ->
                 /\ UNCHANGED known_nodes
                 /\ quiet(<<Event(socket, "fetch_blob",
                                   [type |-> "fetch_blob", peer_id |-> n,
                                    blob_hash |-> data.blob_hash,
                                    entry_id |-> data.entry_id])>>)
          [] OTHER ->
                 /\ UNCHANGED known_nodes
                 /\ quiet(<<>>)

\* the data that arrives on the /peers namespace of node n, ledger entries apart
HandshakeData(n) ==
    {[type |-> t, peer_id |-> p] :
        t \in {"peer_discovered", "advertise", "sync_request"}, p \in Peers \cup {n}}
    \cup {[type |-> "peer_discovered"], [type |-> "ack", peer_id |-> "p1"]}

\* what a peer sends that is no P2PMessage: a field is missing, or the type is unknown
Malformed ==
    {[type |-> "advertise", peer_id |-> "p1"],
     [message_type |-> "Gossip", sender_id |-> "p1", recipient_id |-> "", payload |-> EmptyDoc]}

\* the p2p_message data that peers send to node n, entry announcements apart
PeerData(n) ==
    Malformed
    \cup {P2PMessage_new("NodeAnnounce", "p1", "", d) :
              d \in {[node_id |-> p] : p \in Peers \cup {n}} \cup {EmptyDoc}}
    \cup {P2PMessage_new(type, "p1", n, EmptyDoc) :
              type \in {"NodeListRequest", "LedgerSyncRequest", "NodeListResponse"}}
    \cup {P2PMessage_new("EntryRequest", "p1", n, [entry_id |-> <<n, "-", "0">>]),
          P2PMessage_new("EntryAnnounce", "p1", "", [entry_id |-> <<n, "-", "0">>])}

NextP2P ==
    \/ \E s \in PeerSockets, d \in IntroData : OnP2PConnect(LedgerNode, s, d)
    \/ \E s \in PeerSockets, d \in PeerData(LedgerNode) : OnP2PMessage(LedgerNode, s, d)
    \/ \E d \in Data : AddLedgerEntry(LedgerNode, d)
    \/ \E d \in HandshakeData(LedgerNode) : OnPeerMessage(LedgerNode, "s1", d)
    \/ \E p \in RecipientIds, m \in OutMessages(LedgerNode), ok \in BOOLEAN :
           SendMessage(LedgerNode, p, m, ok)
    \/ \E p \in RecipientIds, ok \in BOOLEAN : RequestNodeList(LedgerNode, p, ok)
    \/ \E p \in RecipientIds, ok \in BOOLEAN :
           RequestEntry(LedgerNode, p, <<p, "-", "0">>, ok)
    \/ \E p \in RecipientIds, ok \in BOOLEAN : RequestLedgerSync(LedgerNode, p, ok)
    \/ \E m \in OutMessages(LedgerNode), failed \in SUBSET PeerSockets :
           BroadcastMessage(LedgerNode, m, failed)

SpecP2P == Init /\ [][NextP2P]_vars

----------------------------------------------------------------------------
(* Gossip: a node to which two peers have connected takes submits from its clients and
   entry announcements from a peer *)

\* the connections of the node: p1 on s1, and a peer that gave no node_id on s2
GossipTable == connect(connect({}, "p1", "s1"), get_node_id(EmptyDoc), "s2")

\* what the peer sends on its socket: entries it built, and data that does not parse
GossipData(n) ==
    Malformed
    \cup {P2PMessage_new("EntryAnnounce", "p1", "", [entry_id |-> <<n, "-", "0">>])}
    \cup {P2PMessage_new("EntryAnnounce", "p1", "", e) : e \in peer_entries}

\* the state of the node after handle_connection of p1 and then of the other peer
InitGossip ==
    /\ entries = [n \in Nodes |-> <<>>]
    /\ pending_entries = [n \in Nodes |-> {}]
    /\ known_nodes = [n \in Nodes |->
           IF n = LedgerNode THEN {n} \cup {c[1] : c \in GossipTable} ELSE {n}]
    /\ connected_nodes = [n \in Nodes |-> IF n = LedgerNode THEN GossipTable ELSE {}]
    /\ net = {}
    /\ peer_entries = {}
    /\ now = 0
    /\ tasks = NoTasks
    /\ ret = Call("handle_connection", LedgerNode, <<"unknown", "s2">>, <<>>,
                  broadcast_message(GossipTable,
                      P2PMessage_new("NodeAnnounce", LedgerNode, "",
                                     [node_id |-> "unknown"])))

NextGossip ==
    \/ \E d \in Data : AddLedgerEntry(LedgerNode, d)
    \/ \E p \in Peers, h \in KnownHashes : PeerNew(p, h)
    \/ \E e \in peer_entries : AddPendingEntry(LedgerNode, e)
    \/ \E d \in GossipData(LedgerNode) : OnP2PMessage(LedgerNode, "s1", d)

SpecGossip == InitGossip /\ [][NextGossip]_vars

----------------------------------------------------------------------------
(* Bootstrap: the node to which two peers have connected takes the data of the
   handshake on the /peers namespace and the sync responses of a peer *)

\* the entries that peers build with LedgerEntry::new at the time of the step: the
\* first of a chain, and one on the tip of node n
PeerBuilds(n) ==
    {LedgerEntry_new("x", h, p, now) :
        h \in {GenesisHash} \cup {entries[n][i].hash : i \in {Len(entries[n])} \ {0}},
        p \in {"p1", "p2"}}

\* the chains a peer answers a sync request with: one entry of a peer, alone or after
\* the chain of node n, and two different entries of peers
SyncLists(n) ==
    {<<e>> : e \in PeerBuilds(n)}
    \cup {entries[n] \o <<e>> : e \in PeerBuilds(n)}
    \cup {l \in PeerBuilds(n) \X PeerBuilds(n) : l[1] # l[2]}

\* the data that arrives on the /peers namespace of node n: the handshake of a peer
\* that is not connected, sync responses, and the announcements of new entries and of
\* entries that the node has in its chain
SyncData(n) ==
    {[type |-> t, peer_id |-> "p2"] :
        t \in {"peer_discovered", "advertise", "sync_request", "ack"}}
    \cup {[type |-> "sync_response", peer_id |-> "p1", entries |-> l] : l \in SyncLists(n)}
    \cup {[type |-> "sync_response", peer_id |-> "p1", entries |-> <<EmptyDoc>>],
          [type |-> "sync_response", peer_id |-> "p1", blob_hash |-> <<"b32hash">>]}
    \cup {[type |-> "entry_announce", entry |-> e] : e \in PeerBuilds(n) \cup Range(entries[n])}

\* the LedgerSyncResponse messages that answer request_ledger_sync of node n
SyncMessages(n) == {P2PMessage_new("LedgerSyncResponse", "p1", n, l) : l \in SyncLists(n)}

\* the periodic advertisement of main: an advertise event to every /peers socket
Heartbeat(n) ==
    /\ Return("heartbeat", n, <<>>, <<>>,
                   Ordered(<<Event("/peers", "advertise",
                                   [type |-> "advertise", peer_id |-> n])>>))
    /\ UNCHANGED <<entries, pending_entries, known_nodes, connected_nodes, net,
                   peer_entries, now>>

NextSync ==
    \/ \E d \in Data : AddLedgerEntry(LedgerNode, d)
    \/ \E d \in SyncMessages(LedgerNode) : OnP2PMessage(LedgerNode, "s1", d)
    \/ \E d \in SyncData(LedgerNode) : OnPeerMessage(LedgerNode, "s1", d)
    \/ Heartbeat(LedgerNode)

SpecSync == InitGossip /\ [][NextSync]_vars

----------------------------------------------------------------------------
(* Entry requests: peers announce entries to the node and ask it for entries by id *)

\* the ids that peers ask for: of every entry the node holds, in the chain or in the
\* pending pool, and one that it does not hold
RequestedIds(n) ==
    {e.id : e \in Range(entries[n]) \cup pending_entries[n]} \cup {<<n, "-", "9">>}

\* the p2p_message data of the peers: announces of entries they build, requests with
\* an entry_id, and a request without one
RequestData(n) ==
    {P2PMessage_new("EntryAnnounce", "p1", "", e) : e \in PeerBuilds(n)}
    \cup {P2PMessage_new("EntryRequest", "p1", n, [entry_id |-> id]) : id \in RequestedIds(n)}
    \cup {P2PMessage_new("EntryRequest", "p1", n, EmptyDoc)}

NextRequest ==
    \/ \E d \in Data : AddLedgerEntry(LedgerNode, d)
    \/ \E s \in PeerSockets, d \in RequestData(LedgerNode) : OnP2PMessage(LedgerNode, s, d)

SpecRequest == InitGossip /\ [][NextRequest]_vars

----------------------------------------------------------------------------
(* The two mutexes: the handlers of the node run as tasks at the same time.  A handler
   is a sequence of steps, of which each takes a lock, drops its guard, or reads or
   writes what the lock guards *)

\* Ledger::add_entry called without the lock of SharedLedger::add_entry
add_entry_steps_unlocked == <<"last", "push">>

\* SharedLedger::add_entry: the lock, then entries.last() and entries.push of
\* Ledger::add_entry, then the drop of the guard at the return
add_entry_steps == <<"lock_ledger", "last", "push", "unlock_ledger">>

\* SharedLedger::add_pending_entry
add_pending_entry_steps == <<"lock_ledger", "insert", "unlock_ledger">>

\* SharedLedger::process_pending_entries: the lock, then the filter and the loop of
\* Ledger::process_pending_entries, then the drop of the guard
process_pending_entries_steps == <<"lock_ledger", "select", "link", "unlock_ledger">>

\* SharedLedger::add_known_node
add_known_node_steps == <<"lock_ledger", "know", "unlock_ledger">>

\* P2PManager::broadcast_message: the lock, the emits of the for loop, and the drop of
\* the guard at the end of the function
broadcast_message_steps == <<"lock_table", "emit_each", "unlock_table">>

\* P2PManager::send_message: the lock, get and emit, and the drop of the guard
send_message_steps == <<"lock_table", "send", "unlock_table">>

\* handle_connection that does not call add_known_node
handle_connection_steps_unknown ==
    <<"lock_table", "connect", "unlock_table">> \o broadcast_message_steps

\* handle_connection with add_known_node inside the block that holds the table
handle_connection_steps_nested ==
    <<"lock_table", "connect">> \o add_known_node_steps \o <<"unlock_table">>
        \o broadcast_message_steps

\* P2PManager::handle_connection: the block that locks the table for the insert, then
\* add_known_node, then broadcast_message
handle_connection_steps ==
    <<"lock_table", "connect", "unlock_table">> \o add_known_node_steps
        \o broadcast_message_steps

\* SharedLedger::get_entries: the lock, the clone of the chain, the drop of the guard
get_entries_steps == <<"lock_ledger", "get", "unlock_ledger">>

\* P2PManager::handle_ledger_sync_request: get_entries, then the emit on the socket
handle_ledger_sync_request_steps == get_entries_steps \o <<"reply">>

\* an add_ledger_entry handler that broadcasts before add_entry drops its guard
add_ledger_entry_steps_locked ==
    <<"lock_ledger", "last", "push">> \o broadcast_message_steps \o <<"unlock_ledger">>

\* the add_ledger_entry handler: add_entry, then broadcast_entry
add_ledger_entry_steps == add_entry_steps \o broadcast_message_steps

\* P2PManager::handle_entry_announce: add_pending_entry, process_pending_entries, and
\* broadcast_entry in the for loop over added_entries
handle_entry_announce_steps ==
    add_pending_entry_steps \o process_pending_entries_steps
        \o <<"for_added">> \o broadcast_message_steps \o <<"next_added">>

\* the steps of a handler
Program(unit) ==
    CASE unit = "add_ledger_entry" -> add_ledger_entry_steps
      [] unit = "handle_entry_announce" -> handle_entry_announce_steps
      [] unit = "handle_connection" -> handle_connection_steps
      [] unit = "send_message" -> send_message_steps
      [] unit = "process_pending_entries" -> process_pending_entries_steps
      [] unit = "handle_ledger_sync_request" -> handle_ledger_sync_request_steps

\* the peer that connects while other handlers run, and its socket
NewPeer == <<"p2", "s1">>

\* the entries that peer p1 announces: built at the time of the step
Announced(n) == {e \in PeerBuilds(n) : e.creator_node_id = "p1"}

\* a handler starts in task t: tokio runs the handler of an event on a task of its own
Start(n, t, unit, held, queue) ==
    /\ tasks.run[t].unit = ""
    /\ unit \in {"add_ledger_entry", "handle_entry_announce"} =>
           Len(entries[n]) + Cardinality(pending_entries[n])
               + Cardinality({u \in Threads : tasks.run[u].unit \in
                                  {"add_ledger_entry", "handle_entry_announce"}}) < MaxLedger
    /\ tasks' = [tasks EXCEPT !.run[t] =
                    [Idle EXCEPT !.unit = unit, !.pc = 1, !.held = held, !.queue = queue]]
    /\ ret' = Call("start", n, t, <<>>, {})
    /\ UNCHANGED <<entries, pending_entries, known_nodes, connected_nodes, net,
                   peer_entries, now>>

\* the next step of the handler that runs in task t of node n
Step(n, t) ==
    LET L == tasks.run[t]
        prog == Program(L.unit)
        op == prog[L.pc]
        next(L2) == IF L.pc = Len(prog) THEN Idle ELSE [L2 EXCEPT !.pc = L.pc + 1]
        go(ledger, table, L2) ==
            tasks' = [ledger |-> ledger, table |-> table,
                      run |-> [tasks.run EXCEPT ![t] = L2]]
        move(L2) == go(tasks.ledger, tasks.table, next(L2))
        done(sent) == ret' = Call(op, n, t, <<>>, sent)
        announce(e) == P2PMessage_new("EntryAnnounce", n, "", e)
    IN  /\ L.unit # ""
        /\ CASE op = "lock_ledger" ->
                    /\ tasks.ledger = ""
                    /\ go(t, tasks.table, next(L))
                    /\ done({})
                    /\ UNCHANGED <<entries, pending_entries, known_nodes, connected_nodes,
                                   net, peer_entries, now>>
             [] op = "unlock_ledger" ->
                    /\ go("", tasks.table, next(L))
                    /\ done({})
                    /\ UNCHANGED <<entries, pending_entries, known_nodes, connected_nodes,
                                   net, peer_entries, now>>
             [] op = "lock_table" ->
                    /\ tasks.table = ""
                    /\ go(tasks.ledger, t, next([L EXCEPT !.todo = connected_nodes[n]]))
                    /\ done({})
                    /\ UNCHANGED <<entries, pending_entries, known_nodes, connected_nodes,
                                   net, peer_entries, now>>
             [] op = "unlock_table" ->
                    /\ go(tasks.ledger, "", next([L EXCEPT !.todo = {}]))
                    /\ done({})
                    /\ UNCHANGED <<entries, pending_entries, known_nodes, connected_nodes,
                                   net, peer_entries, now>>
             [] op = "last" ->
                    /\ move([L EXCEPT !.tip = <<IF entries[n] = <<>> THEN GenesisHash
                                                ELSE Last(entries[n]).hash>>])
                    /\ done({})
                    /\ UNCHANGED <<entries, pending_entries, known_nodes, connected_nodes,
                                   net, peer_entries, now>>
             [] op = "push" ->
                    \E tm \in {now, now + 1} :
                        LET entry == LedgerEntry_new("x", L.tip[1], n, tm)
                        IN  /\ tm <= MaxTime
                            /\ now' = tm
                            /\ entries' = [entries EXCEPT ![n] = Append(@, entry)]
                            /\ move([L EXCEPT !.tip = <<>>, !.queue = <<announce(entry)>>])
                            /\ done({})
                            /\ UNCHANGED <<pending_entries, known_nodes, connected_nodes,
                                           net, peer_entries>>
             [] op = "insert" ->
                    /\ pending_entries' =
                           [pending_entries EXCEPT ![n] = add_pending_entry(@, L.held[1])]
                    /\ move([L EXCEPT !.held = <<>>])
                    /\ done({})
                    /\ UNCHANGED <<entries, known_nodes, connected_nodes, net,
                                   peer_entries, now>>
             [] op = "select" ->
                    \E order \in processing_orders(entries[n], pending_entries[n]) :
                        /\ move([L EXCEPT !.order = order])
                        /\ done({})
                        /\ UNCHANGED <<entries, pending_entries, known_nodes,
                                       connected_nodes, net, peer_entries, now>>
             [] op = "link" ->
                    LET r == process_pending_entries(entries[n], pending_entries[n], L.order)
                    IN  /\ entries' = [entries EXCEPT ![n] = r.entries]
                        /\ pending_entries' =
                               [pending_entries EXCEPT ![n] = r.pending_entries]
                        /\ move([L EXCEPT !.order = <<>>,
                                          !.queue = [i \in 1..Len(r.added_entries) |->
                                                        announce(r.added_entries[i])]])
                        /\ done({})
                        /\ UNCHANGED <<known_nodes, connected_nodes, net, peer_entries, now>>
             [] op = "know" ->
                    /\ known_nodes' = [known_nodes EXCEPT ![n] = add_known_node(@, NewPeer[1])]
                    /\ move(L)
                    /\ done({})
                    /\ UNCHANGED <<entries, pending_entries, connected_nodes, net,
                                   peer_entries, now>>
             [] op = "connect" ->
                    /\ connected_nodes' =
                           [connected_nodes EXCEPT ![n] = connect(@, NewPeer[1], NewPeer[2])]
                    /\ move(L)
                    /\ done({})
                    /\ UNCHANGED <<entries, pending_entries, known_nodes, net,
                                   peer_entries, now>>
             [] op = "for_added" ->
                    /\ IF L.queue = <<>>
                       THEN go(tasks.ledger, tasks.table, Idle)
                       ELSE move(L)
                    /\ done({})
                    /\ UNCHANGED <<entries, pending_entries, known_nodes, connected_nodes,
                                   net, peer_entries, now>>
             [] op = "next_added" ->
                    /\ go(tasks.ledger, tasks.table,
                          [L EXCEPT !.queue = Tail(@),
                                    !.pc = CHOOSE i \in DOMAIN prog : prog[i] = "for_added"])
                    /\ done({})
                    /\ UNCHANGED <<entries, pending_entries, known_nodes, connected_nodes,
                                   net, peer_entries, now>>
             [] op = "emit_each" ->
                    /\ move([L EXCEPT !.todo = {}])
                    /\ done({[to |-> c[1], socket |-> c[2], msg |-> L.queue[1]] :
                                c \in L.todo})
                    /\ UNCHANGED <<entries, pending_entries, known_nodes, connected_nodes,
                                   net, peer_entries, now>>
             [] op = "get" ->
                    /\ move([L EXCEPT !.held = entries[n]])
                    /\ done({})
                    /\ UNCHANGED <<entries, pending_entries, known_nodes, connected_nodes,
                                   net, peer_entries, now>>
             [] op = "reply" ->
                    /\ move(L)
                    /\ done({[to |-> "p1", socket |-> "s1",
                              msg |-> P2PMessage_new("LedgerSyncResponse", n, "p1", L.held)]})
                    /\ UNCHANGED <<entries, pending_entries, known_nodes, connected_nodes,
                                   net, peer_entries, now>>
             [] op = "send" ->
                    /\ move(L)
                    /\ done(send_message(connected_nodes[n], L.queue[1].recipient_id,
                                         L.queue[1], TRUE).sent)
                    /\ UNCHANGED <<entries, pending_entries, known_nodes, connected_nodes,
                                   net, peer_entries, now>>

NextLock ==
    \/ \E t \in Threads : Start(LedgerNode, t, "add_ledger_entry", <<>>, <<>>)
    \/ \E t \in Threads, e \in Announced(LedgerNode) :
           Start(LedgerNode, t, "handle_entry_announce", <<e>>, <<>>)
    \/ \E t \in Threads :
           Start(LedgerNode, t, "handle_connection", <<>>,
                 <<P2PMessage_new("NodeAnnounce", LedgerNode, "", [node_id |-> NewPeer[1]])>>)
    \/ \E t \in Threads :
           Start(LedgerNode, t, "send_message", <<>>,
                 <<P2PMessage_new("NodeListRequest", LedgerNode, "p1", EmptyDoc)>>)
    \/ \E t \in Threads : Start(LedgerNode, t, "process_pending_entries", <<>>, <<>>)
    \/ \E t \in Threads : Start(LedgerNode, t, "handle_ledger_sync_request", <<>>, <<>>)
    \/ \E t \in Threads : Step(LedgerNode, t)

SpecLock == InitGossip /\ [][NextLock]_vars

----------------------------------------------------------------------------
(* Gossip to its end: two nodes that are connected to each other, and a peer that is
   connected to one of them, submit and announce a bounded number of entries, and every
   message in flight is handled in the end *)

\* the connection table of node n: the other node, and the peer p1 at the ledger node
QuietTable(n) ==
    IF n = LedgerNode
    THEN connect(connect({}, "n2", "s1"), "p1", "s2")
    ELSE connect({}, LedgerNode, "s1")

\* the state after the handle_connection calls that made the tables
InitQuiet ==
    /\ entries = [n \in Nodes |-> <<>>]
    /\ pending_entries = [n \in Nodes |-> {}]
    /\ known_nodes = [n \in Nodes |-> {n} \cup {c[1] : c \in QuietTable(n)}]
    /\ connected_nodes = [n \in Nodes |-> QuietTable(n)]
    /\ net = {}
    /\ peer_entries = {}
    /\ now = 0
    /\ tasks = NoTasks
    /\ ret = Call("handle_connection", LedgerNode, <<"p1", "s2">>, <<>>,
                  broadcast_message(QuietTable(LedgerNode),
                      P2PMessage_new("NodeAnnounce", LedgerNode, "", [node_id |-> "p1"])))

\* a client submits to node n, one of the finitely many submits
QuietSubmit(n, data) ==
    /\ Cardinality(AllEntries) < MaxLedger
    /\ AddLedgerEntry(n, data)

\* peer p1 announces an entry it built to node n, one of finitely many
QuietAnnounce(n, entry) ==
    /\ Cardinality(AllEntries \cup {entry}) <= MaxLedger
    /\ OnP2PMessage(n, "s2", P2PMessage_new("EntryAnnounce", "p1", "", entry))

NextQuiet ==
    \/ \E n \in Nodes, d \in Data : QuietSubmit(n, d)
    \/ \E e \in Announced(LedgerNode) : QuietAnnounce(LedgerNode, e)
    \/ \E n \in Nodes : HandleMessage(n)

\* the runtime runs the handler of every p2p_message that a socket received
SpecQuiet ==
    InitQuiet /\ [][NextQuiet]_vars /\ \A n \in Nodes : WF_vars(HandleMessage(n))

----------------------------------------------------------------------------
(* One entry in the hands of a peer: its public fields are assigned, it is signed and
   it is tested with is_valid *)

\* the values a field of the entry is given
FieldValues ==
    [id |-> {<<p, "-", ToString(ms)>> : p \in Peers, ms \in 0..1} \cup {<<"n1", "-", "0">>},
     timestamp |-> 0..1,
     data |-> {"x", "y"},
     previous_hash |-> {GenesisHash, Sha256(<<"n1">>)},
     creator_node_id |-> Peers \cup {"n1"}]

HashedFields == DOMAIN FieldValues

\* the entries the peer starts with: any field values, and a hash that is the entry's
\* digest or is not
EntryInputs ==
    LET blank == [id : FieldValues.id, timestamp : FieldValues.timestamp,
                  data : FieldValues.data, previous_hash : FieldValues.previous_hash,
                  hash : {GenesisHash}, creator_node_id : FieldValues.creator_node_id,
                  signatures : {{}}]
    IN  blank \cup {[e EXCEPT !.hash = calculate_hash(e)] : e \in blank}

InitEntry ==
    /\ entries = [n \in Nodes |-> <<>>]
    /\ pending_entries = [n \in Nodes |-> {}]
    /\ known_nodes = [n \in Nodes |-> {n}]
    /\ connected_nodes = [n \in Nodes |-> {}]
    /\ net = {}
    /\ peer_entries \in {{e} : e \in EntryInputs}
    /\ now = 0
    /\ tasks = NoTasks
    /\ ret = Call("new", "", <<>>, <<>>, {})

\* the step of a peer on its entry, from entry before to entry after, with what
\* is_valid says of each
EntryStep(op, arg, before, after) ==
    /\ peer_entries' = {after}
    /\ Return(op, "", arg, [before |-> is_valid(before), after |-> is_valid(after)], {})
    /\ UNCHANGED <<entries, pending_entries, known_nodes, connected_nodes, net, now>>

\* an assignment to one of the public hashed fields of struct LedgerEntry
Assign(field, value) ==
    \E e \in peer_entries :
        /\ e[field] # value
        /\ EntryStep("assign", field, e, [e EXCEPT ![field] = value])

\* LedgerEntry::add_signature on the entry
AddSignature(node_id, signature) ==
    \E e \in peer_entries :
        /\ add_signature(e, node_id, signature) # e
        /\ EntryStep("add_signature", <<node_id, signature>>, e,
                     add_signature(e, node_id, signature))

\* LedgerEntry::is_valid on the entry
IsValid ==
    \E e \in peer_entries : EntryStep("is_valid", e, e, e)

NextEntry ==
    \/ \E f \in HashedFields : \E v \in FieldValues[f] : Assign(f, v)
    \/ \E p \in Peers : AddSignature(p, "sig")
    \/ IsValid

SpecEntry == InitEntry /\ [][NextEntry]_vars

----------------------------------------------------------------------------
(* Properties of the ledger *)

IsPrefix(s, t) == Len(s) <= Len(t) /\ \A i \in 1..Len(s) : s[i] = t[i]

\* the digest of the five hashed fields, written out
Digest(id, timestamp, data, previous_hash, creator_node_id) ==
    Sha256(id \o to_rfc3339(timestamp) \o to_string(data) \o previous_hash
              \o <<creator_node_id>>)

\* an entry whose hash is the digest of its five hashed fields
Valid(e) == e.hash = Digest(e.id, e.timestamp, e.data, e.previous_hash, e.creator_node_id)

\* the hash of the tip of a chain, GenesisHash below the first entry
TipHash(chain) == IF chain = <<>> THEN GenesisHash ELSE Last(chain).hash

\* the step is a call of op on node n
Called(op, n) == ret'.op = op /\ ret'.node = n

\* C1: every chain entry after the first has previous_hash equal to the hash of the
\* entry before it.
C1_ChainLinked ==
    \A n \in Nodes : \A i \in 2..Len(entries[n]) :
        entries[n][i].previous_hash = entries[n][i - 1].hash

\* C2: the first entry of a non-empty chain has the genesis sentinel as previous_hash.
C2_GenesisFirst ==
    \A n \in Nodes : entries[n] # <<>> => entries[n][1].previous_hash = GenesisHash

\* C2 witness: a chain that a submit began and a reconcile extended with a peer's entry.
C2_Witness ==
    \E n \in Nodes :
        /\ Len(entries[n]) >= 2
        /\ entries[n][1].previous_hash = GenesisHash
        /\ \E i \in 2..Len(entries[n]) : entries[n][i].creator_node_id \in Peers

\* C3: a submit returns Ok, appends exactly the returned entry and changes no entry
\* already in the chain; the entry has the submitted data, the local node as creator
\* and the prior tip's hash (genesis on an empty chain) as previous_hash.
C3_SubmitAppends ==
    [][\A n \in Nodes : Called("add_entry", n) =>
          LET e == ret'.value.entry
          IN  /\ ret'.value.ok
              /\ entries'[n] = Append(entries[n], e)
              /\ e.data = ret'.arg
              /\ e.creator_node_id = n
              /\ e.previous_hash = TipHash(entries[n])]_vars

\* C3 witness: a submit on a chain whose tip a reconcile linked from a peer.
C3_Witness ==
    \E n \in Nodes :
        /\ ret.op = "add_entry" /\ ret.node = n
        /\ Len(entries[n]) >= 2
        /\ Last(entries[n]) = ret.value.entry
        /\ entries[n][Len(entries[n]) - 1].creator_node_id \in Peers
        /\ ret.value.entry.previous_hash = entries[n][Len(entries[n]) - 1].hash

\* C4: the hash of every chain entry is the digest of its id, timestamp, data,
\* previous_hash and creator_node_id.
C4_ChainSelfVerifying ==
    \A n \in Nodes : \A i \in 1..Len(entries[n]) :
        LET e == entries[n][i]
        IN  e.hash = Digest(e.id, e.timestamp, e.data, e.previous_hash, e.creator_node_id)

\* C4 witness: a reconcile has linked a peer's entry while an altered entry that
\* also points at the old tip stays in the pool.
C4_Witness ==
    \E n \in Nodes :
        /\ ret.op = "process_pending_entries"
        /\ ret.node = n
        /\ Len(ret.value) >= 1
        /\ Last(entries[n]).creator_node_id \in Peers
        /\ \E e \in pending_entries[n] :
              ~is_valid(e) /\ e.previous_hash = Last(entries[n]).previous_hash

\* C5 as claimed: is_valid holds iff the hash is the digest of the five hashed fields,
\* and changing any one field of a valid entry, its signatures included, with the hash
\* left as it is makes is_valid false.
C5_AnyFieldInvalidates ==
    /\ \A e \in peer_entries : is_valid(e) <=> Valid(e)
    /\ (ret.op \in {"assign", "add_signature"} /\ ret.value.before) => ~ret.value.after

\* C5: is_valid holds iff the hash is the digest of the five hashed fields; changing
\* any one of id, timestamp, data, previous_hash and creator_node_id of a valid entry
\* with the hash left as it is makes is_valid false, and changing its signatures
\* leaves is_valid as it was.
C5_HashedFieldInvalidates ==
    /\ \A e \in peer_entries : is_valid(e) <=> Valid(e)
    /\ (ret.op = "assign" /\ ret.value.before) => ~ret.value.after
    /\ ret.op = "add_signature" => ret.value.after = ret.value.before

\* C5 witness: a valid entry was signed, then one of its hashed fields was assigned,
\* and is_valid turned false.
C5_Witness ==
    /\ ret.op = "assign"
    /\ ret.value.before /\ ~ret.value.after
    /\ \E e \in peer_entries : e.signatures # {}

\* C6: no step deletes, reorders or changes an entry of a chain: the chain before a
\* step is a prefix of the chain after it.
C6_AppendOnly ==
    [][\A n \in Nodes : IsPrefix(entries[n], entries'[n])]_vars

\* C6 witness: a chain that grew by a submit and then by a reconcile.
C6_Witness ==
    \E n \in Nodes :
        /\ ret.op = "process_pending_entries" /\ ret.node = n
        /\ Len(ret.value) >= 1
        /\ Len(entries[n]) >= 2

\* the step is a call of reconcile on node n
Reconciled(n) == Called("process_pending_entries", n)

\* the pending pool of node n when the reconcile of the step starts
PoolAtCall(n) == pending_entries[n]

\* the entries a step appends to the chain of node n
Appended(n) == {entries'[n][i] : i \in (Len(entries[n]) + 1)..Len(entries'[n])}

\* C7: a reconcile links only pending entries whose previous_hash is the hash of the
\* tip it found at its start: an entry C that points at a pending entry B, itself
\* pointing at the tip, stays pending while B is linked, and C is linked by a call
\* that finds B as the tip.
C7_SinglePass ==
    [][\A n \in Nodes : Reconciled(n) =>
          /\ \A e \in Appended(n) :
                /\ entries[n] # <<>>
                /\ e \in PoolAtCall(n)
                /\ e.previous_hash = Last(entries[n]).hash
          /\ \A b, c \in PoolAtCall(n) :
                (/\ entries[n] # <<>>
                 /\ Valid(b) /\ Valid(c)
                 /\ b.previous_hash = Last(entries[n]).hash
                 /\ c.previous_hash = b.hash)
                => /\ b \in Appended(n)
                   /\ c \notin Appended(n)
                   /\ c \in pending_entries'[n]
          /\ \A c \in PoolAtCall(n) :
                (/\ entries[n] # <<>>
                 /\ Valid(c)
                 /\ c.previous_hash = Last(entries[n]).hash)
                => c \in Appended(n)]_vars

\* C7 witness: a reconcile has linked one entry B and left in the pool a valid entry
\* that points at B.
C7_Witness ==
    \E n \in Nodes :
        /\ ret.op = "process_pending_entries"
        /\ ret.node = n
        /\ Len(ret.value) = 1
        /\ Last(entries[n]) = ret.value[1]
        /\ \E c \in pending_entries[n] : Valid(c) /\ c.previous_hash = ret.value[1].hash

\* C8: on a non-empty chain a reconcile appends every valid pending entry whose
\* previous_hash is the tip's hash, removes what it appends from the pool, and
\* returns exactly what it appended, in the order it appended it.
C8_ReconcileLinks ==
    [][\A n \in Nodes : (Reconciled(n) /\ entries[n] # <<>>) =>
          /\ entries'[n] = entries[n] \o ret'.value
          /\ \A e \in PoolAtCall(n) :
                (Valid(e) /\ e.previous_hash = Last(entries[n]).hash)
                => e \in Range(ret'.value)
          /\ \A e \in Range(ret'.value) : e \in PoolAtCall(n) /\ Valid(e)
          /\ pending_entries'[n] = PoolAtCall(n) \ Range(ret'.value)]_vars

\* C8 witness: a reconcile has returned an entry of a peer, which now is the tip and
\* no longer in the pool.
C8_Witness ==
    \E n \in Nodes :
        /\ ret.op = "process_pending_entries" /\ ret.node = n
        /\ Len(ret.value) >= 1
        /\ Last(ret.value) = Last(entries[n])
        /\ Last(ret.value).creator_node_id \in Peers
        /\ Last(ret.value) \notin pending_entries[n]

\* C9: of two valid pending entries that both point at the tip, a reconcile links
\* exactly one, the first by timestamp, and the other stays in the pool.
C9_ForkLinksOne ==
    [][\A n \in Nodes : (Reconciled(n) /\ entries[n] # <<>>) =>
          \A b1, b2 \in PoolAtCall(n) :
              (/\ b1 # b2
               /\ Valid(b1) /\ Valid(b2)
               /\ b1.previous_hash = Last(entries[n]).hash
               /\ b2.previous_hash = Last(entries[n]).hash
               /\ b1.timestamp <= b2.timestamp)
              => /\ Len(ret'.value) = 1
                 /\ ret'.value[1].timestamp <= b1.timestamp
                 /\ b2 \in pending_entries'[n]]_vars

\* C10: a node with an empty chain that handles the EntryAnnounce of a valid first
\* entry, one whose previous_hash is the genesis sentinel, links it: its chain
\* becomes that entry alone.
C10_EmptyNodeLinksFirst ==
    [][\A n \in Nodes :
          (/\ Called("handle_entry_announce", n)
           /\ entries[n] = <<>>
           /\ Valid(ret'.arg.payload)
           /\ ret'.arg.payload.previous_hash = GenesisHash)
          => entries'[n] = <<ret'.arg.payload>>]_vars

\* C11: a pending entry whose hash is not its digest is never appended to the chain,
\* and it stays in the pool unless an add_pending_entry of the same id overwrites it.
C11_InvalidStaysPending ==
    [][\A n \in Nodes : \A e \in pending_entries[n] :
          ~Valid(e) =>
              /\ e \notin Appended(n)
              /\ \/ e \in pending_entries'[n]
                 \/ Called("add_pending_entry", n) /\ ret'.arg.id = e.id]_vars

\* C11 witness: a reconcile on a non-empty chain has linked nothing and left in the
\* pool an altered entry that points at the tip.
C11_Witness ==
    \E n \in Nodes :
        /\ ret.op = "process_pending_entries" /\ ret.node = n
        /\ ret.value = <<>>
        /\ entries[n] # <<>>
        /\ \E e \in pending_entries[n] :
              ~is_valid(e) /\ e.previous_hash = Last(entries[n]).hash

----------------------------------------------------------------------------
(* Properties of the known nodes and of the peer protocol *)

\* C12: the known nodes of a node contain its own id in every state.
C12_KnowsItself == \A n \in Nodes : n \in known_nodes[n]

\* C12 witness: a peer has announced the node's own id to a node that knows a peer.
C12_Witness ==
    \E n \in Nodes :
        /\ ret.op = "handle_node_announce" /\ ret.node = n
        /\ "node_id" \in DOMAIN ret.arg.payload
        /\ ret.arg.payload.node_id = n
        /\ known_nodes[n] \cap Peers # {}
        /\ n \in known_nodes[n]

\* C13: no step removes an id from the known nodes of a node.
C13_KnownNodesGrow ==
    [][\A n \in Nodes : known_nodes[n] \subseteq known_nodes'[n]]_vars

\* C13 witness: after a connection without node_id and an announced peer, an advertise
\* on the /peers namespace has run on a node that knows three ids.
C13_Witness ==
    \E n \in Nodes :
        /\ ret.op = "on_peer_message" /\ ret.node = n
        /\ ret.arg.type = "advertise"
        /\ known_nodes[n] = {n, "unknown"} \cup Peers

\* the ids that the step hands to add_known_node on node n
AddedIds(n) ==
    IF ret'.node # n THEN {}
    ELSE IF ret'.op = "handle_connection" THEN {ret'.arg[1]}
    ELSE IF ret'.op = "handle_node_announce"
         THEN IF "node_id" \in DOMAIN ret'.arg.payload
              THEN {ret'.arg.payload.node_id} ELSE {"unknown"}
    ELSE IF /\ ret'.op = "on_peer_message"
            /\ {"type", "peer_id"} \subseteq DOMAIN ret'.arg
            /\ ret'.arg.type \in {"peer_discovered", "advertise"}
         THEN {ret'.arg.peer_id}
    ELSE {}

\* C14: a step that adds an id to the known nodes leaves them as they were, with the
\* same cardinality, when the id is already there, the node's own id included, and
\* otherwise adds just that id; adding the id once more gives the same set.
C14_AddKnownNodeIdempotent ==
    [][\A n \in Nodes : \A x \in AddedIds(n) :
          /\ known_nodes'[n] = known_nodes[n] \cup {x}
          /\ x \in known_nodes[n] =>
                /\ known_nodes'[n] = known_nodes[n]
                /\ Cardinality(known_nodes'[n]) = Cardinality(known_nodes[n])
          /\ add_known_node(known_nodes'[n], x) = known_nodes'[n]]_vars

\* C14 witness: a node that knows a peer has been told of its own id as discovered.
C14_Witness ==
    \E n \in Nodes :
        /\ ret.op = "on_peer_message" /\ ret.node = n
        /\ {"type", "peer_id"} \subseteq DOMAIN ret.arg
        /\ ret.arg.type = "peer_discovered"
        /\ ret.arg.peer_id = n
        /\ known_nodes[n] \cap Peers # {}

\* the sockets that the connection table of node n holds for a peer id
Handles(n, peer_id) == {c[2] : c \in {x \in connected_nodes[n] : x[1] = peer_id}}

\* the ledger and the tables of node n are after the step what they were before it
Untouched(n) ==
    /\ entries'[n] = entries[n]
    /\ pending_entries'[n] = pending_entries[n]
    /\ known_nodes'[n] = known_nodes[n]
    /\ connected_nodes'[n] = connected_nodes[n]

\* C15: send_message returns true iff the recipient is in the connection table and the
\* emit on its socket succeeds; to a recipient that is not in the table it returns
\* false, emits nothing and leaves the connection table and the ledger as they were.
C15_SendMessage ==
    [][\A n \in Nodes : Called("send_message", n) =>
          LET to == ret'.arg.recipient_id
          IN  /\ ret'.value = (Handles(n, to) # {} /\ ret'.arg.emit_ok)
              /\ ret'.sent = {[to |-> to, socket |-> h, msg |-> ret'.arg.message] :
                                 h \in Handles(n, to)}
              /\ Handles(n, to) = {} =>
                    /\ ret'.value = FALSE
                    /\ ret'.sent = {}
                    /\ net' = net
                    /\ Untouched(n)]_vars

\* C15 witness: with one peer connected, a send to an id that is not in the table has
\* returned false.
C15_Witness ==
    \E n \in Nodes :
        /\ ret.op = "send_message" /\ ret.node = n
        /\ connected_nodes[n] # {}
        /\ \A c \in connected_nodes[n] : c[1] # ret.arg.recipient_id
        /\ ret.arg.emit_ok
        /\ ret.value = FALSE

\* C16: broadcast_message emits the message exactly once on every socket that the
\* connection table holds at the call, whichever of the emits fail.
C16_BroadcastToAll ==
    [][\A n \in Nodes : Called("broadcast_message", n) =>
          /\ ret'.sent = {[to |-> c[1], socket |-> c[2], msg |-> ret'.arg.message] :
                             c \in connected_nodes[n]}
          /\ Cardinality(ret'.sent) = Cardinality(connected_nodes[n])]_vars

\* C16 witness: a broadcast to two sockets, the emit on one of which failed.
C16_Witness ==
    /\ ret.op = "broadcast_message"
    /\ Cardinality(ret.arg.failed) = 1
    /\ Cardinality({x.socket : x \in ret.sent}) = 2

\* the type of the message that a request helper sends
RequestType(op) ==
    CASE op = "request_node_list" -> "NodeListRequest"
      [] op = "request_entry" -> "EntryRequest"
      [] op = "request_ledger_sync" -> "LedgerSyncRequest"

\* C17: request_node_list, request_entry and request_ledger_sync each emit one message
\* on the recipient's socket, of type NodeListRequest, EntryRequest (with the entry_id
\* asked for) and LedgerSyncRequest, from the local node to the recipient, and return
\* what send_message returns: false, with nothing emitted, for an id not in the table.
C17_RequestHelpers ==
    [][\A n \in Nodes :
          (/\ ret'.node = n
           /\ ret'.op \in {"request_node_list", "request_entry", "request_ledger_sync"})
          => LET to == ret'.arg.recipient_id
             IN  /\ ret'.value = (Handles(n, to) # {} /\ ret'.arg.emit_ok)
                 /\ Cardinality(ret'.sent) = IF Handles(n, to) = {} THEN 0 ELSE 1
                 /\ \A x \in ret'.sent :
                       /\ x.to = to
                       /\ x.socket \in Handles(n, to)
                       /\ x.msg.message_type = RequestType(ret'.op)
                       /\ x.msg.sender_id = n
                       /\ x.msg.recipient_id = to
                       /\ ret'.op = "request_entry" =>
                             x.msg.payload = [entry_id |-> ret'.arg.entry_id]]_vars

\* C17 witness: a request_entry to a connected peer has emitted its message and
\* returned true.
C17_Witness ==
    /\ ret.op = "request_entry"
    /\ ret.value = TRUE
    /\ \E x \in ret.sent : x.msg.payload.entry_id = ret.arg.entry_id

\* C18: after handle_connection with a payload that carries peer id p, the connection
\* table holds for p the new socket and no other, and p is a known node.
C18_ConnectionReplaces ==
    [][\A n \in Nodes : Called("handle_connection", n) =>
          LET p == ret'.arg[1]
              socket == ret'.arg[2]
          IN  /\ {c \in connected_nodes'[n] : c[1] = p} = {<<p, socket>>}
              /\ p \in known_nodes'[n]]_vars

\* C18 witness: p1 has connected on s2 to a node whose other socket s1 is held by the
\* peer that gave no node_id.
C18_Witness ==
    \E n \in Nodes :
        /\ ret.op = "handle_connection" /\ ret.node = n
        /\ ret.arg = <<"p1", "s2">>
        /\ connected_nodes[n] = {<<"p1", "s2">>, <<"unknown", "s1">>}

\* the names under which the handlers of an inbound p2p_message record their call
InboundOps ==
    {"p2p_message", "handle_message", "handle_node_announce", "handle_node_list_request",
     "handle_entry_announce", "handle_entry_request", "handle_ledger_sync_request"}

\* C19: a p2p_message that does not parse as a message, or an EntryAnnounce whose
\* payload does not parse as an entry, changes neither the chain, the pending pool,
\* the known nodes nor the connection table, and nothing is emitted.
C19_MalformedDropped ==
    [][\A n \in Nodes :
          (/\ ret'.node = n
           /\ ret'.op \in InboundOps
           /\ \/ ~is_message(ret'.arg)
              \/ ret'.arg.message_type = "EntryAnnounce" /\ ~is_entry(ret'.arg.payload))
          => /\ Untouched(n)
             /\ ret'.sent = {}
             /\ net' = net]_vars

\* C19 witness: a node with a chain and a pending entry has taken an EntryAnnounce
\* whose payload is no entry.
C19_Witness ==
    \E n \in Nodes :
        /\ ret.op = "handle_entry_announce" /\ ret.node = n
        /\ ~is_entry(ret.arg.payload)
        /\ entries[n] # <<>>
        /\ pending_entries[n] # {}

\* C20: the handler of an EntryAnnounce of entry E puts E into the pending pool and
\* reconciles once; each entry that this appends to the chain is emitted as an
\* EntryAnnounce of the local node on every socket of the connection table, and
\* nothing else is emitted: nothing at all when nothing is appended.
C20_AnnounceGossips ==
    [][\A n \in Nodes :
          (Called("handle_entry_announce", n) /\ is_entry(ret'.arg.payload)) =>
              LET E == ret'.arg.payload
                  pool == {x \in pending_entries[n] : x.id # E.id} \cup {E}
              IN  /\ entries'[n] = entries[n] \o ret'.value
                  /\ Range(ret'.value) \subseteq pool
                  /\ pending_entries'[n] = pool \ Range(ret'.value)
                  /\ \A x \in pool :
                        (/\ entries[n] # <<>>
                         /\ Valid(x)
                         /\ x.previous_hash = TipHash(entries[n]))
                        => x \in Range(ret'.value)
                  /\ ret'.sent =
                        {[to |-> c[1], socket |-> c[2],
                          msg |-> [message_type |-> "EntryAnnounce", sender_id |-> n,
                                   recipient_id |-> "", payload |-> e]] :
                            c \in connected_nodes[n], e \in Range(ret'.value)}
                  /\ ret'.value = <<>> => ret'.sent = {}]_vars

\* C20 witness: one EntryAnnounce has made the node link two entries, the one announced
\* and one that was pending, and emit each of them on both sockets.
C20_Witness ==
    \E n \in Nodes :
        /\ ret.op = "handle_entry_announce" /\ ret.node = n
        /\ Len(ret.value) = 2
        /\ ret.arg.payload \in Range(ret.value)
        /\ Cardinality(ret.sent) = 4
        /\ Cardinality(connected_nodes[n]) = 2

----------------------------------------------------------------------------
(* Properties of the bootstrap handshake and of the sync responses *)

\* C21: the handler of an inbound LedgerSyncResponse puts every entry the message
\* carries into the pending pool and reconciles, so that each carried entry is pending
\* or linked afterwards, and a carried valid entry whose previous_hash is the hash of
\* the local tip is linked.
C21_SyncResponseMerges ==
    [][\A n \in Nodes :
          (/\ ret'.node = n
           /\ ret'.op \in InboundOps
           /\ is_message(ret'.arg)
           /\ ret'.arg.message_type = "LedgerSyncResponse")
          => \A e \in Range(ret'.arg.payload) :
                /\ e \in pending_entries'[n] \cup Range(entries'[n])
                /\ (entries[n] # <<>> /\ Valid(e) /\ e.previous_hash = TipHash(entries[n]))
                       => e \in Range(entries'[n])]_vars

\* the type of the /peers data that the step handles
PeerDataType == IF "type" \in DOMAIN ret'.arg THEN ret'.arg.type ELSE ""

\* the step is on_peer_message of node n on data of the type, with a peer_id
Handshake(n, type) ==
    /\ Called("on_peer_message", n)
    /\ PeerDataType = type
    /\ "peer_id" \in DOMAIN ret'.arg

\* C22: on_peer_message of a sync_response puts every carried entry into the pending
\* pool and reconciles once, and emits every entry which that reconcile appended to the
\* chain as an EntryAnnounce of the local node on every socket of the connection table.
C22_SyncResponseRebroadcasts ==
    [][\A n \in Nodes :
          (/\ Handshake(n, "sync_response")
           /\ "entries" \in DOMAIN ret'.arg
           /\ is_entries(ret'.arg.entries))
          => /\ Range(ret'.arg.entries) \subseteq pending_entries'[n] \cup Range(entries'[n])
             /\ entries'[n] = entries[n] \o ret'.value
             /\ \A e \in Appended(n), c \in connected_nodes[n] :
                    [to |-> c[1], socket |-> c[2],
                     msg |-> [message_type |-> "EntryAnnounce", sender_id |-> n,
                              recipient_id |-> "", payload |-> e]] \in ret'.sent]_vars

\* the events of the name that the step emits
Emitted(event) == {x \in ret'.sent : "event" \in DOMAIN x /\ x.event = event}

\* C23: the handler of /peers data emits advertise only on a peer_discovered, and then
\* it is the one event emitted, with the id of the local node; on an advertise of peer A
\* it adds A to the known nodes and emits peer_ack first and peer_sync_request second,
\* both with the id of the local node, and nothing else; it emits a peer_sync_response
\* only on a sync_request, and that response carries the whole chain of the node as it
\* is at that step.
C23_HandshakeOrder ==
    [][\A n \in Nodes :
          Called("on_peer_message", n) =>
              LET d == ret'.arg
                  one(at, event, type) ==
                      {x \in ret'.sent : /\ "event" \in DOMAIN x
                                         /\ x.at = at
                                         /\ x.event = event
                                         /\ x.data.type = type
                                         /\ x.data.peer_id = n}
              IN  /\ Emitted("advertise") # {} => Handshake(n, "peer_discovered")
                  /\ Handshake(n, "peer_discovered") =>
                        /\ d.peer_id \in known_nodes'[n]
                        /\ Cardinality(ret'.sent) = 1
                        /\ ret'.sent = one(1, "advertise", "advertise")
                  /\ Handshake(n, "advertise") =>
                        /\ known_nodes'[n] = known_nodes[n] \cup {d.peer_id}
                        /\ Cardinality(ret'.sent) = 2
                        /\ ret'.sent = one(1, "peer_ack", "ack")
                                           \cup one(2, "peer_sync_request", "sync_request")
                  /\ Emitted("peer_sync_response") # {} => Handshake(n, "sync_request")
                  /\ Handshake(n, "sync_request") =>
                        /\ Cardinality(ret'.sent) = 1
                        /\ ret'.sent = one(1, "peer_sync_response", "sync_response")
                        /\ \A x \in ret'.sent : x.data.entries = entries[n]
                        /\ entries'[n] = entries[n]]_vars

\* C23 witness: a node with a chain has taken the advertise of a peer it did not know,
\* and has emitted two events.
C23_Witness ==
    \E n \in Nodes :
        /\ ret.op = "on_peer_message" /\ ret.node = n
        /\ "type" \in DOMAIN ret.arg /\ ret.arg.type = "advertise"
        /\ ret.arg.peer_id \in known_nodes[n]
        /\ ret.arg.peer_id \notin {c[1] : c \in connected_nodes[n]}
        /\ Cardinality(ret.sent) = 2
        /\ entries[n] # <<>>

\* C24: a step of the handshake at the node that discovered a peer (the peer_discovered
\* event, the ack and the sync_request of the peer) leaves the chain, the pending pool
\* and the connection table of the node as they are; the discovery adds the peer to the
\* known nodes and the other two leave the known nodes as they are.  The chain or the
\* pool of a node changes in on_peer_message only on a sync_response or an
\* entry_announce, the data that the other side of a handshake receives.
C24_HandshakeOneWay ==
    [][\A n \in Nodes :
          Called("on_peer_message", n) =>
              /\ PeerDataType \in {"peer_discovered", "ack", "sync_request"} =>
                    /\ entries' = entries
                    /\ pending_entries' = pending_entries
                    /\ connected_nodes' = connected_nodes
                    /\ known_nodes'[n] =
                          IF Handshake(n, "peer_discovered")
                          THEN known_nodes[n] \cup {ret'.arg.peer_id}
                          ELSE known_nodes[n]
              /\ (entries'[n] # entries[n] \/ pending_entries'[n] # pending_entries[n])
                    => PeerDataType \in {"sync_response", "entry_announce"}]_vars

\* C24 witness: a node that has a chain and a pending entry, and that has discovered a
\* peer before, has answered the sync_request of a peer.
C24_Witness ==
    \E n \in Nodes :
        /\ ret.op = "on_peer_message" /\ ret.node = n
        /\ "type" \in DOMAIN ret.arg /\ ret.arg.type = "sync_request"
        /\ ret.arg.peer_id \in known_nodes[n]
        /\ entries[n] # <<>>
        /\ pending_entries[n] # {}
        /\ ret.sent # {}

----------------------------------------------------------------------------
(* Properties of the pending pool against the chain *)

\* C28: no two positions of a chain hold entries of the same hash: an entry that is in
\* the chain is not appended again, whatever is delivered again to the pending pool.
C28_NoEntryTwice ==
    \A n \in Nodes : \A i, j \in 1..Len(entries[n]) :
        i # j => entries[n][i].hash # entries[n][j].hash

\* C28 witness: a sync response that carried the chain of the node again, with a new
\* entry after it, has made the node link the new entry, with the entries of the chain
\* in the pending pool.
C28_Witness ==
    \E n \in Nodes :
        /\ ret.op = "on_peer_message" /\ ret.node = n
        /\ "entries" \in DOMAIN ret.arg
        /\ Len(ret.arg.entries) >= 2
        /\ Len(ret.value) = 1
        /\ Len(entries[n]) >= 2
        /\ \E i \in 1..Len(entries[n]) :
               entries[n][i] \in pending_entries[n] /\ entries[n][i] \in Range(ret.arg.entries)

\* C29: no entry is in the chain and in the pending pool of a node at the same time.
C29_PoolNotLinked ==
    \A n \in Nodes : pending_entries[n] \cap Range(entries[n]) = {}

\* the ids of the entries of a pool
Ids(pool) == {e.id : e \in pool}

\* C30: an entry leaves the pending pool of a node only in a call of
\* process_pending_entries that appends this entry to the chain, or in a call of
\* add_pending_entry with an entry of the same id, which takes its place; a call of
\* add_pending_entry leaves in the pool the ids that were there and the id of its
\* entry, and no other call changes the pool.
C30_PoolRemoval ==
    [][\A n \in Nodes :
          /\ \A e \in pending_entries[n] \ pending_entries'[n] :
                \/ Called("process_pending_entries", n) /\ e \in Appended(n)
                \/ /\ Called("add_pending_entry", n)
                   /\ ret'.arg.id = e.id
                   /\ ret'.arg \in pending_entries'[n]
          /\ Called("add_pending_entry", n) =>
                /\ Ids(pending_entries'[n]) = Ids(pending_entries[n]) \cup {ret'.arg.id}
                /\ Cardinality(pending_entries'[n]) = Cardinality(Ids(pending_entries'[n]))
          /\ ~Called("process_pending_entries", n) =>
                Ids(pending_entries[n]) \subseteq Ids(pending_entries'[n])]_vars

\* C30 witness: a reconcile has appended an entry and has left in the pool an entry of
\* another id, and the entry it appended is no longer pending.
C30_Witness ==
    \E n \in Nodes :
        /\ ret.op = "process_pending_entries" /\ ret.node = n
        /\ Len(ret.value) >= 1
        /\ pending_entries[n] # {}
        /\ Ids(Range(ret.value)) \cap Ids(pending_entries[n]) = {}

----------------------------------------------------------------------------
(* Properties of the two mutexes *)

\* the step that task t takes next, "" when it runs no handler
NextOp(t) ==
    IF tasks.run[t].unit = "" THEN ""
    ELSE Program(tasks.run[t].unit)[tasks.run[t].pc]

\* the steps in which a handler emits to a peer
SendOps == {"emit_each", "send", "reply"}

\* C25 as claimed: at each emit to a peer, the task that emits holds neither the ledger
\* lock nor the lock of the connection table.
C25_NoLockAtSend ==
    [][\A t \in Threads :
          (ret'.arg = t /\ ret'.op \in SendOps) =>
              tasks.ledger # t /\ tasks.table # t]_vars

\* C25 amended: messages are emitted in the emit steps only; the task that emits never
\* holds the ledger lock; it holds the lock of the connection table at the emits of
\* broadcast_message and of send_message, and no lock at the reply of a request.
C25_LedgerLockFreeAtSend ==
    [][\A t \in Threads :
          ret'.arg = t =>
              /\ ret'.sent # {} => ret'.op \in SendOps
              /\ ret'.op \in SendOps => tasks.ledger # t
              /\ ret'.op \in {"emit_each", "send"} => tasks.table = t
              /\ ret'.op = "reply" => tasks.table # t]_vars

\* C25 witness: a task has emitted an entry announcement in broadcast_message and has
\* not yet dropped the guard of the connection table, while the other task holds the
\* ledger lock.
C25_Witness ==
    \E t \in Threads, u \in Threads :
        /\ ret.op = "emit_each" /\ ret.arg = t
        /\ ret.sent # {}
        /\ tasks.table = t
        /\ NextOp(t) = "unlock_table"
        /\ u # t /\ tasks.ledger = u

\* task t is at a lock that another task holds
Waits(t) ==
    \/ NextOp(t) = "lock_ledger" /\ tasks.ledger # ""
    \/ NextOp(t) = "lock_table" /\ tasks.table # ""

\* C26: no task holds both locks, a task that is about to take a lock holds none, and
\* a task that waits for a lock waits for one that is held by another task which does
\* not wait itself: no handlers are deadlocked.
C26_LocksNotNested ==
    \A t \in Threads :
        /\ ~(tasks.ledger = t /\ tasks.table = t)
        /\ NextOp(t) \in {"lock_ledger", "lock_table"} =>
               tasks.ledger # t /\ tasks.table # t
        /\ Waits(t) =>
               \E u \in Threads \ {t} :
                   /\ ~Waits(u)
                   /\ \/ NextOp(t) = "lock_ledger" /\ tasks.ledger = u
                      \/ NextOp(t) = "lock_table" /\ tasks.table = u

\* C26 witness: handle_connection waits for the ledger lock, having dropped the guard
\* of the table, while a handler of an entry announcement holds the ledger lock.
C26_Witness ==
    \E t \in Threads, u \in Threads :
        /\ tasks.run[t].unit = "handle_connection"
        /\ NextOp(t) = "lock_ledger"
        /\ tasks.run[u].unit = "handle_entry_announce"
        /\ tasks.ledger = u
        /\ tasks.table = ""

\* C27: in the chain of a node, every entry that the node created with add_entry has as
\* previous_hash the hash of the entry right before it (the genesis sentinel at the
\* first place), and no two such entries have the same previous_hash, whatever the
\* interleaving of the handlers that submit and reconcile.
C27_SubmitsSerialized ==
    \A n \in Nodes :
        LET submitted == {i \in 1..Len(entries[n]) : entries[n][i].creator_node_id = n}
        IN  /\ \A i \in submitted :
                   entries[n][i].previous_hash =
                       IF i = 1 THEN GenesisHash ELSE entries[n][i - 1].hash
            /\ \A i, j \in submitted :
                   i # j => entries[n][i].previous_hash # entries[n][j].previous_hash

\* C27 witness: a submit waits for the ledger lock while a reconcile that has read the
\* tip is about to append an entry of a peer, on a chain that a submit began.
C27_Witness ==
    \E t \in Threads, u \in Threads :
        /\ tasks.run[t].unit = "add_ledger_entry"
        /\ NextOp(t) = "lock_ledger"
        /\ tasks.ledger = u
        /\ NextOp(u) = "link"
        /\ tasks.run[u].order # <<>>
        /\ \E i \in 1..Len(entries[LedgerNode]) :
               entries[LedgerNode][i].creator_node_id = LedgerNode

----------------------------------------------------------------------------
(* Properties of ids, of the order of a reconcile and of the order of arrival *)

\* C31: no two places of the chain of a node hold entries of the same id.
C31_IdsUnique ==
    \A n \in Nodes : \A i, j \in 1..Len(entries[n]) :
        i # j => entries[n][i].id # entries[n][j].id

\* C32: the entries that one call of process_pending_entries appends to the chain are
\* the entries it returns, in the same order, and their timestamps do not decrease
\* along that order.
C32_ReconcileSorted ==
    [][\A n \in Nodes :
          Called("process_pending_entries", n) =>
              /\ entries'[n] = entries[n] \o ret'.value
              /\ \A i, j \in 1..Len(ret'.value) :
                    i < j => ret'.value[i].timestamp <= ret'.value[j].timestamp]_vars

\* C32 witness: a reconcile has appended two entries of different timestamps.
C32_Witness ==
    \E n \in Nodes :
        /\ ret.op = "process_pending_entries" /\ ret.node = n
        /\ Len(ret.value) = 2
        /\ ret.value[1].timestamp < ret.value[2].timestamp

\* C33: the handler of an EntryAnnounce of a valid entry E whose previous_hash is the
\* tip hash of the receiver (the genesis sentinel when its chain is empty) links E,
\* and it links no entry, announced or pending, whose previous_hash is not that tip
\* hash: an entry E2 that points at E is pending after the handler of E2 and still
\* pending after the later handler of E, while E2 announced after E finds E as the
\* tip and is linked.
C33_ArrivalOrder ==
    [][\A n \in Nodes :
          (Called("handle_entry_announce", n) /\ is_entry(ret'.arg.payload)) =>
              LET E == ret'.arg.payload
                  pool == {x \in pending_entries[n] : x.id # E.id} \cup {E}
              IN  /\ \A x \in pool :
                         x.previous_hash # TipHash(entries[n]) =>
                             x \notin Appended(n) /\ x \in pending_entries'[n]
                  /\ (Valid(E) /\ E.previous_hash = TipHash(entries[n]))
                         => E \in Appended(n)]_vars

----------------------------------------------------------------------------
(* Properties of the submit handler, of handle_connection and of the entry request *)

\* C34: the add_ledger_entry handler appends the entry it builds to the chain,
\* broadcasts that entry as one EntryAnnounce from the node, with no recipient, to
\* the socket of every peer in the connection table and to nothing else, and returns
\* the entry to the client.
C34_SubmitGossiped ==
    [][\A n \in Nodes :
          Called("add_entry", n) =>
              /\ ret'.value.ok
              /\ entries'[n] = Append(entries[n], ret'.value.entry)
              /\ ret'.sent =
                     {[to |-> c[1], socket |-> c[2],
                       msg |-> P2PMessage_new("EntryAnnounce", n, "", ret'.value.entry)] :
                          c \in connected_nodes[n]}
              /\ Cardinality(ret'.sent) = Cardinality(connected_nodes[n])]_vars

\* C34 witness: a submit on a node with two connected peers has announced the new
\* tip to both.
C34_Witness ==
    \E n \in Nodes :
        /\ ret.op = "add_entry" /\ ret.node = n
        /\ Cardinality(connected_nodes[n]) = 2
        /\ Cardinality(ret.sent) = 2
        /\ \A m \in ret.sent : m.msg.payload = Last(entries[n])

C36_UnknownSentinel ==
    [][/\ \A s \in PeerSockets, d \in IntroData :
              (OnP2PConnect(LedgerNode, s, d) /\ "node_id" \notin DOMAIN d) =>
                  /\ Called("handle_connection", LedgerNode)
                  /\ ret'.arg = <<"unknown", s>>
                  /\ "unknown" \in known_nodes'[LedgerNode]
                  /\ {c \in connected_nodes'[LedgerNode] : c[1] = "unknown"}
                         = {<<"unknown", s>>}
       /\ \A n \in Nodes :
              (/\ Called("handle_node_announce", n)
               /\ "node_id" \notin DOMAIN ret'.arg.payload) =>
                  /\ known_nodes'[n] = known_nodes[n] \cup {"unknown"}
                  /\ connected_nodes'[n] = connected_nodes[n]
                  /\ entries'[n] = entries[n]
                  /\ pending_entries'[n] = pending_entries[n]]_vars

\* C36 witness: a peer without node_id has connected to a node that holds the
\* connection of a named peer, and the table holds the socket of the new connection
\* alone under "unknown", which is a known node.
C36_Witness ==
    \E n \in Nodes :
        /\ ret.op = "handle_connection" /\ ret.node = n
        /\ ret.arg[1] = "unknown"
        /\ "unknown" \in known_nodes[n]
        /\ Handles(n, "unknown") = {ret.arg[2]}
        /\ Handles(n, "p1") # {}
        /\ \E m \in ret.sent : m.to = "unknown" /\ m.msg.payload.node_id = "unknown"

\* C37: the handler of an EntryRequest changes neither the ledger nor the connection
\* table; when the chain holds an entry of the requested id it emits one
\* EntryResponse, from the node to the sender of the request, that carries a chain
\* entry of that id; when the chain holds none, the pending pool holding one or not,
\* it emits nothing.
C37_EntryRequest ==
    [][\A n \in Nodes :
          Called("handle_entry_request", n) =>
              LET entry_id == IF "entry_id" \in DOMAIN ret'.arg.payload
                              THEN ret'.arg.payload.entry_id ELSE <<>>
                  hits == {e \in Range(entries[n]) : e.id = entry_id}
                  requester == ret'.arg.sender_id
              IN  /\ Untouched(n)
                  /\ hits # {} =>
                        \E e \in hits, socket \in PeerSockets :
                            ret'.sent =
                                {[to |-> requester, socket |-> socket,
                                  msg |-> P2PMessage_new("EntryResponse", n, requester, e)]}
                  /\ hits = {} => ret'.sent = {}]_vars

\* C37 witness: the node has answered a request for the id of an entry of its chain
\* with that entry, while its pending pool holds an entry too.
C37_Witness ==
    \E n \in Nodes :
        /\ ret.op = "handle_entry_request" /\ ret.node = n
        /\ Cardinality(ret.sent) = 1
        /\ \A m \in ret.sent :
               /\ m.msg.message_type = "EntryResponse"
               /\ m.msg.recipient_id = ret.arg.sender_id
               /\ m.msg.payload \in Range(entries[n])
               /\ m.msg.payload.id = ret.arg.payload.entry_id
        /\ pending_entries[n] # {}

----------------------------------------------------------------------------
(* Properties of the connection table over time and of the end of gossip *)

\* C38: no step takes a peer id out of the connection table of a node; the table
\* changes only in handle_connection, which puts the new socket under the id of the
\* peer and leaves every other row; and every broadcast, of a message or of a
\* submitted entry, emits on the socket of each row that the table holds.
C38_TableNeverShrinks ==
    [][\A n \in Nodes :
          /\ {c[1] : c \in connected_nodes[n]} \subseteq {c[1] : c \in connected_nodes'[n]}
          /\ connected_nodes'[n] # connected_nodes[n] =>
                /\ Called("handle_connection", n)
                /\ connected_nodes'[n] =
                       {c \in connected_nodes[n] : c[1] # ret'.arg[1]}
                           \cup {<<ret'.arg[1], ret'.arg[2]>>}
          /\ (ret'.node = n /\ ret'.op \in {"broadcast_message", "add_entry"}) =>
                {<<m.to, m.socket>> : m \in ret'.sent} = connected_nodes[n]]_vars

\* C38 witness: a broadcast has emitted on the sockets of two peers, one of which
\* connected without node_id, after the node linked an entry of its own.
C38_Witness ==
    \E n \in Nodes :
        /\ ret.op = "broadcast_message" /\ ret.node = n
        /\ {c[1] : c \in connected_nodes[n]} = {"p1", "unknown"}
        /\ {m.to : m \in ret.sent} = {"p1", "unknown"}
        /\ entries[n] # <<>>

\* C40: while no task of a node runs handle_connection, every peer id of its connection
\* table is one of its known nodes.
C40_ConnectedAreKnown ==
    \A n \in Nodes :
        (\A t \in Threads : tasks.run[t].unit # "handle_connection")
            => {c[1] : c \in connected_nodes[n]} \subseteq known_nodes[n]

\* C40 witness: handle_connection of the new peer has run to its end, and the peer is
\* in the connection table and a known node.
C40_Witness ==
    /\ \A t \in Threads : tasks.run[t].unit # "handle_connection"
    /\ NewPeer \in connected_nodes[LedgerNode]
    /\ NewPeer[1] \in known_nodes[LedgerNode]
    /\ ret.op = "unlock_table"

\* C39: a node broadcasts an entry when it handles an announce only in the step in
\* which it appends that entry to its chain, where the entry was not before; and
\* after the last submit every announce in flight is handled: from some state on no
\* message is in flight.
C39_GossipTerminates ==
    /\ [][\A n \in Nodes :
             Called("handle_entry_announce", n) =>
                 /\ {m.msg.payload : m \in ret'.sent} \subseteq Appended(n)
                 /\ Appended(n) \cap Range(entries[n]) = {}
                 /\ \A m \in ret'.sent : m.msg.message_type = "EntryAnnounce"]_vars
    /\ <>[](net = {})

\* C39 witness: the ledger node has appended an entry of peer p1 to a chain that a
\* submit began and has broadcast it, the other node has handled that announce, and
\* no message is in flight.
C39_Witness ==
    /\ ret.op = "handle_entry_announce" /\ ret.node = "n2"
    /\ ret.arg.sender_id = LedgerNode
    /\ ret.arg.payload.creator_node_id = "p1"
    /\ ret.arg.payload \in Range(entries[LedgerNode])
    /\ ret.arg.payload \in pending_entries["n2"]
    /\ ret.sent = {}
    /\ net = {}

====
